---- MODULE Spec2Model ----
(***************************************************************************)
(* Model of the package-tracking barcode scanner.                          *)
(*                                                                         *)
(*   - the StabilityGate (maybeEmit) of the legacy scanner,                *)
(*   - the legacy live session (startDecoding / native loop / stopDecoding)*)
(*   - the modular app (ScannerApp: start camera, live scan loop, reset),  *)
(*   - the legacy file / crop decode passes (decodeFromFile,               *)
(*     scanCroppedArea).                                                   *)
(*                                                                         *)
(* One set of variables holds the state of all of them; each subsystem has *)
(* its own next-state relation and specification over the common Init.     *)
(***************************************************************************)
EXTENDS Integers, Sequences, FiniteSets

(***************************************************************************)
(* Program constants.                                                      *)
(***************************************************************************)
STABLE_FRAMES == 3

COOLDOWN_MS == 900

\* imageVariations.length: the transforms decodeFromFile tries in order
NumVariants == 21

(***************************************************************************)
(* Bounds of the model.                                                    *)
(***************************************************************************)
\* Date.now() never exceeds this many milliseconds after page load.
MaxNow == 2300

\* stableCount is not driven above this value.
MaxStreak == 6

\* startDecoding is invoked at most this many times.
MaxStarts == 2

\* the camera is started (handleStartCamera, startCameraWithDevice) at most
\* this many times.
MaxCameraStarts == 2

\* handleFileUpload is invoked at most this many times.
MaxUploads == 1

\* decodeFromFile and scanCroppedArea are invoked at most this many times
\* in total.
MaxPasses == 2

\* nativeDetector.detect returns at most this many symbols.
MaxSymbols == 3

\* the longest run of digits among the texts given to the extractor.
MaxDigits == 27

\* the greatest number of stateChange listeners registered.
MaxListeners == 3

\* the greatest width and height of the surfaces given to the pixel
\* transforms.
MaxSide == 4

\* the greatest window argument of the adaptive threshold.
MaxWindow == 2

\* the greatest height of the surfaces of which every band is tried; two
\* taller surfaces have a window of more than the minimum height.
MaxRows == 11

Null == "null"

\* null where a start invocation (a stream, an animation-frame request) is named
NoStart == 0

\* Tracking numbers the extractor can hand to the gate.
Candidates == {"A", "B"}

\* Amounts by which the clock advances between two reads of Date.now():
\* half a cooldown and half a cooldown plus one millisecond, so that
\* t + 450, t + 900 and t + 901 are all read.
TickSteps == {COOLDOWN_MS \div 2, (COOLDOWN_MS \div 2) + 1}

VARIABLES
  \* ---- legacy scanner: multi-scan state (StabilityState) ----
  lastTracking,      \* last emitted candidate, or Null
  prevCandidate,     \* candidate of the previous gate call, or Null
  stableCount,       \* streak
  cooldownUntil,     \* timestamp
  resultEl,          \* what renderState last put on screen, or Null
  now,               \* Date.now()
  \* ---- observation of the gate (history) ----
  lastOp,            \* name of the operation that made the last step
  arg,               \* candidate of the last maybeEmit call
  ret,               \* return value of the last maybeEmit call
  recent,            \* the last (up to STABLE_FRAMES) gate inputs, oldest first
  emitAt,            \* emitted candidate -> time of its last emission
  \* ---- legacy scanner: live session ----
  nativeDetector,    \* TRUE when initScanner found a BarcodeDetector
  isScanning,
  currentStream,     \* NoStart, or the start invocation that acquired the stream
  usingNativeDetector,
  rafId,             \* NoStart, or the loop whose animation-frame request it names
  readerActive,      \* codeReader is decoding the video continuously
  startPc,           \* start invocation -> where startDecoding is suspended
  loopPc,            \* start invocation -> where its native loop is
  deactivated,       \* stopDecoding ran and startDecoding was not invoked since
  \* ---- modular app (ScannerApp) ----
  appState,          \* stateMachine._state
  liveScanActive,    \* this._liveScanActive
  scannerStream,     \* scanner.currentStream: NoStart, or the start that set it
  cameraSelector,    \* the #cameraSelector element exists
  appResult,         \* the tracking number ui.showResult displays, or Null
  delivered,         \* flips at every handleScanResult call
  camPc,             \* camera start -> where its handler is suspended
  scanLoopPc,        \* camera start -> where the live scan loop it started is
  stale,             \* camera start -> where its loop was when handleReset ran
  uploadPc,          \* upload -> where handleFileUpload is suspended
  uploadNative,      \* upload -> what scanFromCanvas's native detect settled with
  reads,             \* camera start -> the last (up to STABLE_FRAMES) frames its
                     \* live scan loop got from scanFromVideo, oldest first
  failedSince,       \* camera start -> an image source failed while its loop
                     \* ran, and the loop did not test its condition since
  \* ---- legacy scanner: file and crop decode passes ----
  passPc,            \* pass -> where decodeFromFile / scanCroppedArea is suspended
  passKind,          \* pass -> "file" (decodeFromFile) or "crop" (scanCroppedArea)
  passFile,          \* pass -> the image it decodes
  passI,             \* pass -> number of the variation being tried (i + 1)
  attemptCount,      \* pass -> attemptCount
  finalResult,       \* pass -> text of finalResult, or Null
  cropImage,         \* the image the crop UI shows, or Null
  cropSelected,      \* the crop selection rectangle is visible
  statusEl,          \* statusEl.textContent
  latest,            \* the pass requested most recently
  calls,             \* pass -> the transform and backend calls it made, in order
  renderedBy,        \* the pass whose result renderState displayed last
  \* ---- functions of the scanner, applied to an input ----
  barcodes,          \* the symbol list nativeDetector.detect returned (rawValues)
  best,              \* position in barcodes of the symbol selected
  bestScanner,       \* position of the symbol BarcodeScanner takes the text of
  text,              \* the decoded text given to the extractor
  picked,            \* the {carrier, number} pickTracking returned for text
  extracted,         \* the {carrier, number} extractTrackingNumber returned
  liveTracking,      \* the tracking the live scan loop built for text
  \* ---- legacy scanner: band detection and crops ----
  bandPc,            \* where detectBarcodeBandFromCanvas / createCroppedCanvas is
  srcH,              \* height of the source surface
  rowScores,         \* rowScores, in thousandths of a luminance step
  bandY,             \* y of the sliding-window loop
  running,           \* running
  bestSum,           \* bestSum
  bestY,             \* bestY
  cropY,             \* cropY of the region cropped
  cropH,             \* cropH of the region cropped
  \* ---- legacy scanner: pixel transforms ----
  source,            \* the ImageData read from the canvas, or NoSurface
  integral,          \* integral of createAdaptiveThresholdCanvas
  outData,           \* outData of createAdaptiveThresholdCanvas
  thWindow,          \* its window argument
  thC,               \* its C argument
  invData,           \* data after the inversions applied to the source
  invCount,          \* how many inversions were applied
  \* ---- StateMachine ----
  smState,           \* _state
  listeners,         \* _listeners.stateChange: what each listener does when called
  invoked,           \* the listener calls of the last setState: <<listener, new, old>>
  escaped            \* an exception left the last setState

gateVars == <<lastTracking, prevCandidate, stableCount, cooldownUntil>>

obsVars == <<lastOp, arg, ret, recent, emitAt>>

liveVars == <<isScanning, currentStream, usingNativeDetector, rafId,
              readerActive, startPc, loopPc, deactivated>>

fileVars == <<passPc, passKind, passFile, passI, attemptCount, finalResult,
              cropImage, cropSelected, statusEl, latest, renderedBy, calls>>

bandVars == <<bandPc, srcH, rowScores, bandY, running, bestSum, bestY, cropY, cropH>>

pixVars == <<source, integral, outData, thWindow, thC, invData, invCount>>

smVars == <<smState, listeners, invoked, escaped>>

fnVars == <<smVars, barcodes, best, bestScanner, text, picked, extracted, liveTracking, bandVars, pixVars>>

appVars == <<appState, liveScanActive, scannerStream, cameraSelector, appResult,
             delivered, camPc, scanLoopPc, stale, uploadPc, uploadNative, reads,
             failedSince>>

vars == <<lastTracking, prevCandidate, stableCount, cooldownUntil, resultEl,
          now, lastOp, arg, ret, recent, emitAt,
          nativeDetector, isScanning, currentStream, usingNativeDetector, rafId,
          readerActive, startPc, loopPc, deactivated,
          appState, liveScanActive, scannerStream, cameraSelector, appResult,
          delivered, camPc, scanLoopPc, stale, uploadPc, uploadNative, reads,
          failedSince, passPc, passKind, passFile, passI, attemptCount, finalResult,
          cropImage, cropSelected, statusEl, latest, renderedBy, calls,
          barcodes, best, bestScanner, text, picked, extracted, liveTracking,
          bandPc, srcH, rowScores, bandY, running, bestSum, bestY, cropY, cropH,
          source, integral, outData, thWindow, thC, invData, invCount,
          smState, listeners, invoked, escaped>>

(***************************************************************************)
(* StabilityGate: maybeEmit                                                *)
(***************************************************************************)
\* a streak update that keeps counting when the candidate changes
NextStreak_NoRestart(candidate, prev, count) ==
  IF candidate = prev \/ prev # Null THEN count + 1 ELSE 1

\* the streak update of maybeEmit
NextStreak(candidate, prev, count) ==
  IF candidate = prev THEN count + 1 ELSE 1

\* an emit condition whose cooldown ends one millisecond early
ShouldEmit_CooldownInclusive(candidate, count, last, t, cd) ==
  count >= STABLE_FRAMES /\ (candidate # last \/ t >= cd)

\* an emit condition whose cooldown also holds back a different candidate
ShouldEmit_CooldownForAll(candidate, count, last, t, cd) ==
  count >= STABLE_FRAMES /\ t > cd

\* the emit condition of maybeEmit
ShouldEmit(candidate, count, last, t, cd) ==
  count >= STABLE_FRAMES /\ (candidate # last \/ t > cd)

\* the record of emission times after candidate c was emitted at time t
Emitted(f, c, t) ==
  [x \in DOMAIN f \cup {c} |-> IF x = c THEN t ELSE f[x]]

\* the window of the last STABLE_FRAMES gate inputs
Push(w, c) ==
  IF Len(w) < STABLE_FRAMES THEN Append(w, c) ELSE Append(Tail(w), c)

\* a maybeEmit whose null branch forgets to clear the streak
maybeEmit_NullKeepsStreak(candidate) ==
  /\ arg' = candidate
  /\ recent' = Push(recent, candidate)
  /\ IF candidate = Null
       THEN /\ ret' = FALSE
            /\ UNCHANGED <<prevCandidate, stableCount, lastTracking,
                           cooldownUntil, resultEl, emitAt>>
       ELSE LET n == NextStreak(candidate, prevCandidate, stableCount) IN
            /\ prevCandidate' = candidate
            /\ stableCount' = n
            /\ IF ShouldEmit(candidate, n, lastTracking, now, cooldownUntil)
                 THEN /\ resultEl' = candidate
                      /\ lastTracking' = candidate
                      /\ cooldownUntil' = now + COOLDOWN_MS
                      /\ emitAt' = Emitted(emitAt, candidate, now)
                      /\ ret' = TRUE
                 ELSE /\ ret' = FALSE
                      /\ UNCHANGED <<lastTracking, cooldownUntil, resultEl, emitAt>>

\* a maybeEmit that starts a new streak after every emission
maybeEmit_EmitResetsStreak(candidate) ==
  /\ arg' = candidate
  /\ recent' = Push(recent, candidate)
  /\ IF candidate = Null
       THEN /\ prevCandidate' = Null
            /\ stableCount' = 0
            /\ ret' = FALSE
            /\ UNCHANGED <<lastTracking, cooldownUntil, resultEl, emitAt>>
       ELSE LET n == NextStreak(candidate, prevCandidate, stableCount) IN
            IF ShouldEmit(candidate, n, lastTracking, now, cooldownUntil)
              THEN /\ prevCandidate' = Null
                   /\ stableCount' = 0
                   /\ resultEl' = candidate
                   /\ lastTracking' = candidate
                   /\ cooldownUntil' = now + COOLDOWN_MS
                   /\ emitAt' = Emitted(emitAt, candidate, now)
                   /\ ret' = TRUE
              ELSE /\ prevCandidate' = candidate
                   /\ stableCount' = n
                   /\ ret' = FALSE
                   /\ UNCHANGED <<lastTracking, cooldownUntil, resultEl, emitAt>>

\* a maybeEmit whose null branch clears the candidate and keeps the count
maybeEmit_NullKeepsCount(candidate) ==
  /\ arg' = candidate
  /\ recent' = Push(recent, candidate)
  /\ IF candidate = Null
       THEN /\ prevCandidate' = Null
            /\ ret' = FALSE
            /\ UNCHANGED <<stableCount, lastTracking, cooldownUntil, resultEl, emitAt>>
       ELSE LET n == NextStreak(candidate, prevCandidate, stableCount) IN
            /\ prevCandidate' = candidate
            /\ stableCount' = n
            /\ IF ShouldEmit(candidate, n, lastTracking, now, cooldownUntil)
                 THEN /\ resultEl' = candidate
                      /\ lastTracking' = candidate
                      /\ cooldownUntil' = now + COOLDOWN_MS
                      /\ emitAt' = Emitted(emitAt, candidate, now)
                      /\ ret' = TRUE
                 ELSE /\ ret' = FALSE
                      /\ UNCHANGED <<lastTracking, cooldownUntil, resultEl, emitAt>>

\* maybeEmit(tracking, rawText) with candidate = tracking?.number || null
maybeEmit(candidate) ==
  /\ arg' = candidate
  /\ recent' = Push(recent, candidate)
  /\ IF candidate = Null
       THEN /\ prevCandidate' = Null
            /\ stableCount' = 0
            /\ ret' = FALSE
            /\ UNCHANGED <<lastTracking, cooldownUntil, resultEl, emitAt>>
       ELSE LET n == NextStreak(candidate, prevCandidate, stableCount) IN
            /\ prevCandidate' = candidate
            /\ stableCount' = n
            /\ IF ShouldEmit(candidate, n, lastTracking, now, cooldownUntil)
                 THEN /\ resultEl' = candidate
                      /\ lastTracking' = candidate
                      /\ cooldownUntil' = now + COOLDOWN_MS
                      /\ emitAt' = Emitted(emitAt, candidate, now)
                      /\ ret' = TRUE
                 ELSE /\ ret' = FALSE
                      /\ UNCHANGED <<lastTracking, cooldownUntil, resultEl, emitAt>>

\* the invocations of startDecoding
Starts == 1..MaxStarts

\* what one frame decodes to: no symbol at all ("none"), text that is no
\* tracking number (Null), or a tracking number
FrameOutcomes == {"none", Null} \cup Candidates

\* what nativeDetector.detect can settle with: a list whose selected symbol
\* has text, a list whose selected symbol has only white space, an empty
\* list, an error
NativeOutcomes == {"text", "blank", "empty", "throws"}

\* nativeResult is set: the list is not empty and the trimmed text is not
Usable(outcome) == outcome = "text"

\* the camera starts and the uploads of the modular app
CameraStarts == 1..MaxCameraStarts

Uploads == 1..MaxUploads

\* the counter stays within the model's bound
StreakInBound(candidate) ==
  candidate # Null /\ candidate = prevCandidate => stableCount < MaxStreak

\* the extractor's null
NoMatch == [carrier |-> Null, number |-> <<>>]

\* no ImageData was read yet
NoSurface == [width |-> 0, height |-> 0, data |-> <<>>]

\* invocations of decodeFromFile and scanCroppedArea, in the order of request
Passes == 1..MaxPasses

\* a file that is no image: loading it fails (img.onerror)
Unreadable == "U"

\* files the user can choose; a backend that decodes image f yields text f
Files == {"X", "Y", Unreadable}

\* createImageElement(file), and every transform, which loads the file first
Loads(f) == f # Unreadable

Init ==
  /\ lastTracking = Null
  /\ prevCandidate = Null
  /\ stableCount = 0
  /\ cooldownUntil = 0
  /\ resultEl = Null
  /\ now = 0
  /\ lastOp = "init"
  /\ arg = Null
  /\ ret = FALSE
  /\ recent = <<>>
  /\ emitAt = <<>>
  /\ nativeDetector \in BOOLEAN
  /\ isScanning = FALSE
  /\ currentStream = NoStart
  /\ usingNativeDetector = FALSE
  /\ rafId = NoStart
  /\ readerActive = FALSE
  /\ startPc = [s \in Starts |-> "new"]
  /\ loopPc = [s \in Starts |-> "none"]
  /\ deactivated = FALSE
  /\ appState = "idle"
  /\ liveScanActive = FALSE
  /\ scannerStream = NoStart
  /\ cameraSelector = FALSE
  /\ appResult = Null
  /\ delivered = FALSE
  /\ camPc = [h \in CameraStarts |-> "new"]
  /\ scanLoopPc = [h \in CameraStarts |-> "none"]
  /\ stale = [h \in CameraStarts |-> "no"]
  /\ uploadPc = [u \in Uploads |-> "new"]
  /\ uploadNative = [u \in Uploads |-> "none"]
  /\ reads = [h \in CameraStarts |-> <<>>]
  /\ failedSince = [h \in CameraStarts |-> FALSE]
  /\ passPc = [p \in Passes |-> "new"]
  /\ passKind = [p \in Passes |-> "none"]
  /\ passFile = [p \in Passes |-> Null]
  /\ passI = [p \in Passes |-> 0]
  /\ attemptCount = [p \in Passes |-> 0]
  /\ finalResult = [p \in Passes |-> Null]
  /\ cropImage = Null
  /\ cropSelected = FALSE
  /\ statusEl = "Idle"
  /\ latest = NoStart
  /\ renderedBy = NoStart
  /\ calls = [p \in Passes |-> <<>>]
  /\ barcodes = <<>>
  /\ best = 0
  /\ bestScanner = 0
  /\ text = <<>>
  /\ picked = NoMatch
  /\ extracted = NoMatch
  /\ liveTracking = NoMatch
  /\ bandPc = "idle"
  /\ srcH = 0
  /\ rowScores = <<>>
  /\ bandY = 0
  /\ running = 0
  /\ bestSum = 0
  /\ bestY = 0
  /\ cropY = 0
  /\ cropH = 0
  /\ source = NoSurface
  /\ integral = <<>>
  /\ outData = <<>>
  /\ thWindow = 0
  /\ thC = 0
  /\ invData = <<>>
  /\ invCount = 0
  /\ smState = "idle"
  /\ listeners = <<>>
  /\ invoked = <<>>
  /\ escaped = FALSE

\* time passes between two reads of Date.now()
Tick ==
  /\ \E d \in TickSteps :
       /\ now + d <= MaxNow
       /\ now' = now + d
  /\ lastOp' = "tick"
  /\ UNCHANGED <<gateVars, resultEl, arg, ret, recent, emitAt>>
  /\ UNCHANGED <<nativeDetector, liveVars, appVars, fileVars, fnVars>>

\* one frame's extractor output is handed to the gate
GateFrame ==
  /\ \E c \in Candidates \cup {Null} :
       /\ StreakInBound(c)
       /\ maybeEmit(c)
  /\ lastOp' = "maybeEmit"
  /\ UNCHANGED <<now, nativeDetector, liveVars, appVars, fileVars, fnVars>>

NextGate ==
  \/ Tick
  \/ GateFrame

SpecGate == Init /\ [][NextGate]_vars

(***************************************************************************)
(* Legacy scanner: live session (startDecoding, native loop, stopDecoding) *)
(***************************************************************************)
\* startBtn.disabled and stopBtn.disabled are assigned wherever isScanning is
StartBtnDisabled == isScanning

StopBtnDisabled == ~isScanning

\* cancelAnimationFrame(id): a request that has not fired yet never fires
CancelFrame(pcs, id) ==
  IF id # NoStart /\ pcs[id] = "raf" THEN [pcs EXCEPT ![id] = "cancelled"] ELSE pcs

\* the body of stopDecoding
stopDecoding ==
  /\ usingNativeDetector' = FALSE
  /\ loopPc' = CancelFrame(loopPc, rafId)
  /\ rafId' = NoStart
  /\ readerActive' = IF isScanning THEN FALSE ELSE readerActive
  /\ currentStream' = NoStart
  /\ isScanning' = FALSE

\* the catch block of startDecoding
startFailed ==
  /\ isScanning' = FALSE
  /\ currentStream' = NoStart

\* time passes; the live session reads the clock at coarser instants
LiveTick ==
  /\ now + COOLDOWN_MS + 1 <= MaxNow
  /\ now' = now + COOLDOWN_MS + 1
  /\ lastOp' = "tick"
  /\ UNCHANGED <<gateVars, resultEl, arg, ret, recent, emitAt>>
  /\ UNCHANGED <<nativeDetector, liveVars, appVars, fileVars, fnVars>>

\* startBtn.onclick / camsEl.onchange: startDecoding up to its first await
StartDecoding(s, deviceId) ==
  /\ startPc[s] = "new"
  /\ \A r \in Starts : r < s => startPc[r] # "new"
  /\ IF isScanning
       THEN stopDecoding
       ELSE UNCHANGED <<usingNativeDetector, loopPc, rafId, readerActive,
                        currentStream, isScanning>>
  /\ startPc' = [startPc EXCEPT ![s] = IF deviceId = "" THEN "done" ELSE "getUserMedia"]
  /\ deactivated' = FALSE
  /\ lastOp' = "startDecoding"
  /\ UNCHANGED <<gateVars, resultEl, now, arg, ret, recent, emitAt, nativeDetector, appVars, fileVars, fnVars>>

\* startBtn.onclick: the button is enabled while not scanning
StartClick ==
  /\ ~StartBtnDisabled
  /\ \E s \in Starts, deviceId \in {"", "cam"} : StartDecoding(s, deviceId)

\* camsEl.onchange: restarts only while scanning
CameraChange ==
  /\ isScanning
  /\ \E s \in Starts, deviceId \in {"", "cam"} : StartDecoding(s, deviceId)

\* navigator.mediaDevices.getUserMedia settles
GetUserMediaDone(s, ok) ==
  /\ startPc[s] = "getUserMedia"
  /\ IF ok
       THEN /\ currentStream' = s
            /\ startPc' = [startPc EXCEPT ![s] = "play"]
            /\ UNCHANGED isScanning
       ELSE /\ startFailed
            /\ startPc' = [startPc EXCEPT ![s] = "done"]
  /\ lastOp' = "getUserMedia"
  /\ UNCHANGED <<gateVars, resultEl, now, arg, ret, recent, emitAt, nativeDetector, appVars, fileVars, fnVars>>
  /\ UNCHANGED <<usingNativeDetector, rafId, readerActive, loopPc, deactivated>>

\* ensureVideoPlays settles: the session becomes active and the native loop
\* is requested, or the ZXing decoder is started on the video (it decodes
\* from the call on, until codeReader.reset())
PlayDone(s) ==
  /\ startPc[s] = "play"
  /\ isScanning' = TRUE
  /\ IF nativeDetector
       THEN /\ usingNativeDetector' = TRUE
            /\ loopPc' = [loopPc EXCEPT ![s] = "raf"]
            /\ rafId' = s
            /\ startPc' = [startPc EXCEPT ![s] = "done"]
            /\ UNCHANGED readerActive
       ELSE /\ startPc' = [startPc EXCEPT ![s] = "decodeFromVideoDevice"]
            /\ readerActive' = TRUE
            /\ UNCHANGED <<usingNativeDetector, loopPc, rafId>>
  /\ lastOp' = "play"
  /\ UNCHANGED <<gateVars, resultEl, now, arg, ret, recent, emitAt, nativeDetector, appVars, fileVars, fnVars>>
  /\ UNCHANGED <<currentStream, deactivated>>

\* codeReader.decodeFromVideoDevice settles
DecodeFromVideoDeviceDone(s, ok) ==
  /\ startPc[s] = "decodeFromVideoDevice"
  /\ IF ok
       THEN UNCHANGED <<isScanning, currentStream, readerActive>>
       ELSE /\ startFailed
            /\ readerActive' = FALSE
  /\ startPc' = [startPc EXCEPT ![s] = "done"]
  /\ lastOp' = "decodeFromVideoDevice"
  /\ UNCHANGED <<gateVars, resultEl, now, arg, ret, recent, emitAt, nativeDetector, appVars, fileVars, fnVars>>
  /\ UNCHANGED <<usingNativeDetector, rafId, loopPc, deactivated>>

\* the animation frame of loop s fires: the check at the top of the loop,
\* then the frame is drawn and nativeDetector.detect is awaited
LoopFrame(s) ==
  /\ loopPc[s] = "raf"
  /\ IF ~usingNativeDetector
       THEN /\ loopPc' = [loopPc EXCEPT ![s] = "returned"]
            /\ UNCHANGED rafId
       ELSE IF currentStream = NoStart
         THEN \* currentStream.getVideoTracks() throws; caught; next frame requested
              /\ rafId' = s
              /\ UNCHANGED loopPc
         ELSE /\ loopPc' = [loopPc EXCEPT ![s] = "detect"]
              /\ UNCHANGED rafId
  /\ lastOp' = "loop"
  /\ UNCHANGED <<gateVars, resultEl, now, arg, ret, recent, emitAt, nativeDetector, appVars, fileVars, fnVars>>
  /\ UNCHANGED <<isScanning, currentStream, usingNativeDetector, readerActive,
                 startPc, deactivated>>

\* a frame without symbol is handed to the gate as a null candidate
ReachesGate_Always(outcome) == TRUE

\* if (barcodes && barcodes.length) ... if (text), and if (result) of the
\* ZXing callback: a frame without symbol (empty list, empty trimmed text,
\* detect error, NotFoundException) does not call pickTracking and maybeEmit
ReachesGate(outcome) == outcome # "none"

\* the candidate of the frame
FrameCandidate(outcome) == IF outcome = "none" THEN Null ELSE outcome

\* nativeDetector.detect of loop s settles; the loop goes on to the gate and
\* requests its next frame
DetectDone(s, outcome) ==
  /\ loopPc[s] = "detect"
  /\ IF ReachesGate(outcome)
       THEN /\ StreakInBound(FrameCandidate(outcome))
            /\ maybeEmit(FrameCandidate(outcome))
       ELSE UNCHANGED <<gateVars, resultEl, arg, ret, recent, emitAt>>
  /\ loopPc' = [loopPc EXCEPT ![s] = "raf"]
  /\ rafId' = s
  /\ lastOp' = IF outcome = "none" THEN "detect" ELSE "maybeEmit"
  /\ UNCHANGED <<now, nativeDetector, appVars, fileVars, fnVars>>
  /\ UNCHANGED <<isScanning, currentStream, usingNativeDetector, readerActive,
                 startPc, deactivated>>

\* the ZXing decoder calls back: with a decoded frame, or with an error
ZXingCallback(outcome) ==
  /\ readerActive
  /\ IF ReachesGate(outcome)
       THEN /\ StreakInBound(FrameCandidate(outcome))
            /\ maybeEmit(FrameCandidate(outcome))
       ELSE UNCHANGED <<gateVars, resultEl, arg, ret, recent, emitAt>>
  /\ lastOp' = IF outcome = "none" THEN "detect" ELSE "maybeEmit"
  /\ UNCHANGED <<now, nativeDetector, liveVars, appVars, fileVars, fnVars>>

\* stopBtn.onclick
StopClick ==
  /\ ~StopBtnDisabled
  /\ stopDecoding
  /\ deactivated' = TRUE
  /\ lastOp' = "stopDecoding"
  /\ UNCHANGED <<gateVars, resultEl, now, arg, ret, recent, emitAt, nativeDetector, appVars, fileVars, fnVars>>
  /\ UNCHANGED startPc

NextLive ==
  \/ LiveTick
  \/ StartClick
  \/ CameraChange
  \/ \E s \in Starts, ok \in BOOLEAN : GetUserMediaDone(s, ok)
  \/ \E s \in Starts : PlayDone(s)
  \/ \E s \in Starts, ok \in BOOLEAN : DecodeFromVideoDeviceDone(s, ok)
  \/ \E s \in Starts : LoopFrame(s)
  \/ \E s \in Starts, outcome \in FrameOutcomes : DetectDone(s, outcome)
  \/ \E outcome \in FrameOutcomes : ZXingCallback(outcome)
  \/ StopClick

SpecLive == Init /\ [][NextLive]_vars

(***************************************************************************)
(* Modular app: ScannerApp (camera start, live scan loop, upload, reset)   *)
(***************************************************************************)
\* the variables of the legacy page, which the modular app never touches
legacyVars == <<gateVars, resultEl, now, arg, ret, recent, emitAt,
                nativeDetector, liveVars, fileVars, fnVars>>

\* handleScanResult(result): showResult when the result carries a tracking
HandleScanResult(tracking) ==
  /\ delivered' = ~delivered
  /\ appResult' = IF tracking # Null THEN tracking ELSE appResult

\* startLiveScanLoop(video), called by camera start h, up to its first await
StartLiveScanLoop(h) ==
  IF liveScanActive
    THEN UNCHANGED <<liveScanActive, scanLoopPc>>
    ELSE IF appState' = "live-camera"
      THEN /\ liveScanActive' = TRUE
           /\ scanLoopPc' = [scanLoopPc EXCEPT ![h] = "scan"]
      ELSE \* the while condition fails at once; the flag is cleared again
           /\ liveScanActive' = FALSE
           /\ scanLoopPc' = [scanLoopPc EXCEPT ![h] = "done"]

\* the live scan loops that are between two tests of their while condition
\* when an image source fails
FailedWhileRunning ==
  [h \in CameraStarts |-> failedSince[h] \/ scanLoopPc[h] \in {"scan", "sleep"}]

\* the next unused camera start
FreshStart(h) ==
  /\ camPc[h] = "new"
  /\ \A g \in CameraStarts : g < h => camPc[g] # "new"

\* startCameraBtn click: handleStartCamera up to the permission request
HandleStartCamera(h) ==
  /\ FreshStart(h)
  /\ appState' = "live-camera"
  /\ camPc' = [camPc EXCEPT ![h] = "permission"]
  /\ lastOp' = "handleStartCamera"
  /\ UNCHANGED <<liveScanActive, scannerStream, cameraSelector, appResult,
                 delivered, scanLoopPc, stale, uploadPc>>
  /\ UNCHANGED <<legacyVars, uploadNative, reads, failedSince>>

\* the permission request settles (a failure is caught and logged)
PermissionDone(h) ==
  /\ camPc[h] = "permission"
  /\ camPc' = [camPc EXCEPT ![h] = "enumerate"]
  /\ lastOp' = "permission"
  /\ UNCHANGED <<appState, liveScanActive, scannerStream, cameraSelector,
                 appResult, delivered, scanLoopPc, stale, uploadPc>>
  /\ UNCHANGED <<legacyVars, uploadNative, reads, failedSince>>

\* enumerateDevices settles with n video inputs (n = -1: it rejects)
EnumerateDone(h, n) ==
  /\ camPc[h] = "enumerate"
  /\ IF n < 0
       THEN /\ appState' = "idle"
            /\ camPc' = [camPc EXCEPT ![h] = "done"]
            /\ UNCHANGED cameraSelector
       ELSE IF n > 1
         THEN /\ cameraSelector' = TRUE
              /\ camPc' = [camPc EXCEPT ![h] = "done"]
              /\ UNCHANGED appState
         ELSE /\ camPc' = [camPc EXCEPT ![h] = "getUserMedia"]
              /\ UNCHANGED <<appState, cameraSelector>>
  /\ lastOp' = "enumerate"
  /\ UNCHANGED <<liveScanActive, scannerStream, appResult, delivered,
                 scanLoopPc, stale, uploadPc>>
  /\ UNCHANGED <<legacyVars, uploadNative, reads, failedSince>>

\* cameraSelector change with a device chosen: startCameraWithDevice up to
\* getUserMedia
StartCameraWithDevice(h) ==
  /\ cameraSelector
  /\ FreshStart(h)
  /\ scannerStream' = NoStart
  /\ camPc' = [camPc EXCEPT ![h] = "getUserMediaDevice"]
  /\ lastOp' = "startCameraWithDevice"
  /\ UNCHANGED <<appState, liveScanActive, cameraSelector, appResult,
                 delivered, scanLoopPc, stale, uploadPc>>
  /\ UNCHANGED <<legacyVars, uploadNative, reads, failedSince>>

\* getUserMedia of a camera start settles
CameraGetUserMediaDone(h, ok) ==
  /\ camPc[h] \in {"getUserMedia", "getUserMediaDevice"}
  /\ IF ok
       THEN /\ scannerStream' = h
            /\ camPc' = [camPc EXCEPT ![h] =
                 IF camPc[h] = "getUserMedia" THEN "play" ELSE "playDevice"]
            /\ UNCHANGED appState
       ELSE /\ appState' = "idle"
            /\ camPc' = [camPc EXCEPT ![h] = "done"]
            /\ UNCHANGED scannerStream
  /\ failedSince' = IF ok THEN failedSince ELSE FailedWhileRunning
  /\ lastOp' = "getUserMedia"
  /\ UNCHANGED <<liveScanActive, cameraSelector, appResult, delivered,
                 scanLoopPc, stale, uploadPc>>
  /\ UNCHANGED <<legacyVars, uploadNative, reads>>

\* video.play() of a camera start settles; on success the live scan loop is
\* started
CameraPlayDone(h, ok) ==
  /\ camPc[h] \in {"play", "playDevice"}
  /\ camPc' = [camPc EXCEPT ![h] = "done"]
  /\ IF ok
       THEN /\ appState' = IF camPc[h] = "playDevice" THEN "live-camera" ELSE appState
            /\ StartLiveScanLoop(h)
       ELSE /\ appState' = "idle"
            /\ UNCHANGED <<liveScanActive, scanLoopPc>>
  /\ lastOp' = "play"
  /\ UNCHANGED <<scannerStream, cameraSelector, appResult, delivered, stale,
                 uploadPc>>
  /\ UNCHANGED <<legacyVars, uploadNative, reads, failedSince>>

\* scanner.scanFromVideo of loop h settles: "none" is a null result, Null a
\* text without tracking number
ScanFromVideoDone(h, outcome) ==
  /\ scanLoopPc[h] = "scan"
  /\ IF outcome = "none"
       THEN /\ scanLoopPc' = [scanLoopPc EXCEPT ![h] = "sleep"]
            /\ UNCHANGED <<appState, appResult, delivered, scannerStream,
                           liveScanActive>>
       ELSE /\ appState' = "static-preview"
            /\ HandleScanResult(outcome)
            /\ scannerStream' = NoStart
            /\ liveScanActive' = FALSE
            /\ scanLoopPc' = [scanLoopPc EXCEPT ![h] = "done"]
  /\ reads' = [reads EXCEPT ![h] = Push(@, outcome)]
  /\ failedSince' = [failedSince EXCEPT ![h] = @ /\ outcome = "none"]
  /\ lastOp' = "scanFromVideo"
  /\ UNCHANGED <<cameraSelector, camPc, stale, uploadPc>>
  /\ UNCHANGED <<legacyVars, uploadNative>>

\* the 400 ms sleep of loop h ends: the while condition is tested
SleepDone(h) ==
  /\ scanLoopPc[h] = "sleep"
  /\ IF liveScanActive /\ appState = "live-camera"
       THEN /\ scanLoopPc' = [scanLoopPc EXCEPT ![h] = "scan"]
            /\ stale' = [stale EXCEPT ![h] = IF @ = "no" THEN "no" ELSE "resumed"]
            /\ UNCHANGED liveScanActive
       ELSE /\ scanLoopPc' = [scanLoopPc EXCEPT ![h] = "done"]
            /\ liveScanActive' = FALSE
            /\ UNCHANGED stale
  /\ failedSince' = [failedSince EXCEPT ![h] = FALSE]
  /\ lastOp' = "sleep"
  /\ UNCHANGED <<appState, scannerStream, cameraSelector, appResult, delivered,
                 camPc, uploadPc>>
  /\ UNCHANGED <<legacyVars, uploadNative, reads>>

\* resetBtn click
HandleReset ==
  /\ scannerStream' = NoStart
  /\ liveScanActive' = FALSE
  /\ cameraSelector' = FALSE
  /\ appResult' = Null
  /\ appState' = "idle"
  /\ stale' = [h \in CameraStarts |->
                 IF scanLoopPc[h] \in {"scan", "sleep"} THEN scanLoopPc[h] ELSE stale[h]]
  /\ lastOp' = "handleReset"
  /\ UNCHANGED <<delivered, camPc, scanLoopPc, uploadPc>>
  /\ UNCHANGED <<legacyVars, uploadNative, reads, failedSince>>

\* uploadInput change with a file: handleFileUpload up to loadImageToCanvas
HandleFileUpload(u) ==
  /\ uploadPc[u] = "new"
  /\ \A v \in Uploads : v < u => uploadPc[v] # "new"
  /\ appState' = "static-preview"
  /\ uploadPc' = [uploadPc EXCEPT ![u] = "load"]
  /\ lastOp' = "handleFileUpload"
  /\ UNCHANGED <<liveScanActive, scannerStream, cameraSelector, appResult,
                 delivered, camPc, scanLoopPc, stale>>
  /\ UNCHANGED <<legacyVars, uploadNative, reads, failedSince>>

\* loadImageToCanvas settles
LoadImageDone(u, ok) ==
  /\ uploadPc[u] = "load"
  /\ IF ok
       THEN /\ uploadPc' = [uploadPc EXCEPT
                 ![u] = IF nativeDetector THEN "detect" ELSE "scan"]
            /\ UNCHANGED appState
       ELSE /\ uploadPc' = [uploadPc EXCEPT ![u] = "done"]
            /\ appState' = "idle"
  /\ failedSince' = IF ok THEN failedSince ELSE FailedWhileRunning
  /\ lastOp' = "loadImageToCanvas"
  /\ UNCHANGED <<liveScanActive, scannerStream, cameraSelector, appResult,
                 delivered, camPc, scanLoopPc, stale>>
  /\ UNCHANGED <<legacyVars, uploadNative, reads>>

\* nativeDetector.detect(canvasEl) of scanFromCanvas settles.  A non-empty
\* list makes scanFromCanvas return bars[0].rawValue as the text, with the
\* tracking number t extracted from it (none from a blank text); an empty
\* list or an error leads on to reader.decodeFromCanvas
CanvasDetectDone(u, outcome, t) ==
  /\ uploadPc[u] = "detect"
  /\ outcome # "text" => t = Null
  /\ uploadNative' = [uploadNative EXCEPT ![u] = outcome]
  /\ IF outcome \in {"text", "blank"}
       THEN /\ uploadPc' = [uploadPc EXCEPT ![u] = "done"]
            /\ IF t \in Candidates
                 THEN HandleScanResult(t)
                 ELSE UNCHANGED <<delivered, appResult>>
       ELSE /\ uploadPc' = [uploadPc EXCEPT ![u] = "scan"]
            /\ UNCHANGED <<delivered, appResult>>
  /\ lastOp' = "scanFromCanvas"
  /\ UNCHANGED <<appState, liveScanActive, scannerStream, cameraSelector,
                 camPc, scanLoopPc, stale>>
  /\ UNCHANGED <<legacyVars, reads, failedSince>>

\* reader.decodeFromCanvas of scanFromCanvas settles and scanFromCanvas
\* returns: null ("none"), a text without tracking number (Null), or a
\* tracking number
ScanFromCanvasDone(u, outcome) ==
  /\ uploadPc[u] = "scan"
  /\ uploadPc' = [uploadPc EXCEPT ![u] = "done"]
  /\ IF outcome \in Candidates
       THEN HandleScanResult(outcome)
       ELSE UNCHANGED <<delivered, appResult>>
  /\ lastOp' = "scanFromCanvas"
  /\ UNCHANGED <<appState, liveScanActive, scannerStream, cameraSelector,
                 camPc, scanLoopPc, stale>>
  /\ UNCHANGED <<legacyVars, uploadNative, reads, failedSince>>

NextApp ==
  \/ \E h \in CameraStarts : HandleStartCamera(h)
  \/ \E h \in CameraStarts : PermissionDone(h)
  \/ \E h \in CameraStarts, n \in -1..2 : EnumerateDone(h, n)
  \/ \E h \in CameraStarts : StartCameraWithDevice(h)
  \/ \E h \in CameraStarts, ok \in BOOLEAN : CameraGetUserMediaDone(h, ok)
  \/ \E h \in CameraStarts, ok \in BOOLEAN : CameraPlayDone(h, ok)
  \/ \E h \in CameraStarts, outcome \in FrameOutcomes : ScanFromVideoDone(h, outcome)
  \/ \E h \in CameraStarts : SleepDone(h)
  \/ HandleReset
  \/ \E u \in Uploads : HandleFileUpload(u)
  \/ \E u \in Uploads, ok \in BOOLEAN : LoadImageDone(u, ok)
  \/ \E u \in Uploads, outcome \in NativeOutcomes, t \in Candidates \cup {Null} :
       CanvasDetectDone(u, outcome, t)
  \/ \E u \in Uploads, outcome \in FrameOutcomes : ScanFromCanvasDone(u, outcome)

SpecApp == Init /\ [][NextApp]_vars

(***************************************************************************)
(* Legacy scanner: file decode pass (decodeFromFile) and crop decode pass  *)
(* (scanCroppedArea).  Every await is a suspension point; other handlers   *)
(* of the page run while a pass is suspended.                              *)
(***************************************************************************)
\* what the file and crop passes never touch
nonFileVars == <<gateVars, now, lastOp, arg, ret, recent, emitAt,
                 nativeDetector, liveVars, appVars, fnVars>>

\* the pass has been requested and has not yet reached its final result
InProgress(p) == passPc[p] \notin {"new", "showCropUI", "done"}

\* the next pass to be requested
IsNextPass(p) == passPc[p] = "new" /\ \A q \in Passes : q < p => passPc[q] # "new"

\* the surface of a call made outside the variation loop: the image itself
Original == 0

\* pass p calls kind ("transform", "native", "baseline", "permissive") for
\* variation i, or for the image itself
Called(p, kind, i) == calls' = [calls EXCEPT ![p] = Append(@, <<kind, i>>)]

\* the hints of the reader a fallback call is made with: codeReader for a
\* baseline call, permissiveReader for a permissive call
HintProfile(kind) ==
  IF kind = "permissive"
    THEN [tryHarder |-> TRUE, pureBarcode |-> FALSE, alsoInverted |-> TRUE]
    ELSE [tryHarder |-> TRUE]

\* the end of a pass: finalResult r is rendered, or the no-result status shown;
\* decodeFromFile then calls showCropUI(file)
Finish(p, r) ==
  /\ finalResult' = [finalResult EXCEPT ![p] = r]
  /\ passPc' = [passPc EXCEPT
                  ![p] = IF passKind[p] = "file" THEN "showCropUI" ELSE "done"]
  /\ IF r # Null
       THEN /\ resultEl' = r
            /\ renderedBy' = p
            /\ statusEl' = IF passKind[p] = "file"
                             THEN "Image processed successfully"
                             ELSE "Cropped area processed successfully"
       ELSE /\ statusEl' = IF passKind[p] = "file"
                             THEN "No barcode found"
                             ELSE "No barcode found in cropped area"
            /\ UNCHANGED <<resultEl, renderedBy>>
  /\ UNCHANGED <<passI, calls>>

\* the variation loop starts: imageVariations[0]() is awaited
EnterVariants(p) ==
  /\ passPc' = [passPc EXCEPT ![p] = "variant"]
  /\ passI' = [passI EXCEPT ![p] = 1]
  /\ Called(p, "transform", 1)
  /\ UNCHANGED <<finalResult, resultEl, renderedBy, statusEl>>

\* a loop that leaves out the variation after the one that failed
NextVariant_SkipsOne(p) ==
  IF passI[p] + 1 < NumVariants
    THEN /\ passPc' = [passPc EXCEPT ![p] = "variant"]
         /\ passI' = [passI EXCEPT ![p] = @ + 2]
         /\ Called(p, "transform", passI[p] + 2)
         /\ UNCHANGED <<finalResult, resultEl, renderedBy, statusEl>>
    ELSE Finish(p, Null)

\* a loop that starts over with the first variation after the last
NextVariant_StartsOver(p) ==
  /\ passPc' = [passPc EXCEPT ![p] = "variant"]
  /\ passI' = [passI EXCEPT ![p] = (@ % NumVariants) + 1]
  /\ Called(p, "transform", (passI[p] % NumVariants) + 1)
  /\ UNCHANGED <<finalResult, resultEl, renderedBy, statusEl>>

\* the loop moves on: the next variation, or the end of the pass with no result
NextVariant(p) ==
  IF passI[p] < NumVariants
    THEN /\ passPc' = [passPc EXCEPT ![p] = "variant"]
         /\ passI' = [passI EXCEPT ![p] = @ + 1]
         /\ Called(p, "transform", passI[p] + 1)
         /\ UNCHANGED <<finalResult, resultEl, renderedBy, statusEl>>
    ELSE Finish(p, Null)

\* fileInput.onchange: decodeFromFile(file) starts and runs to its first await
FileChange(p, f) ==
  /\ IsNextPass(p)
  /\ passKind' = [passKind EXCEPT ![p] = "file"]
  /\ passFile' = [passFile EXCEPT ![p] = f]
  /\ latest' = p
  /\ statusEl' = "Processing image..."
  /\ IF nativeDetector
       THEN /\ passPc' = [passPc EXCEPT ![p] = "nativeImage"]
            /\ UNCHANGED <<passI, calls>>
       ELSE /\ passPc' = [passPc EXCEPT ![p] = "variant"]
            /\ passI' = [passI EXCEPT ![p] = 1]
            /\ Called(p, "transform", 1)
  /\ UNCHANGED <<attemptCount, finalResult, cropImage, cropSelected, renderedBy,
                 resultEl>>
  /\ UNCHANGED nonFileVars

\* createImageElement of the native step settles
NativeImageDone(p, ok) ==
  /\ passPc[p] = "nativeImage"
  /\ ok = Loads(passFile[p])
  /\ IF ok
       THEN /\ passPc' = [passPc EXCEPT ![p] = "nativeDetect"]
            /\ Called(p, "native", Original)
            /\ UNCHANGED <<passI, finalResult, resultEl, renderedBy, statusEl>>
       ELSE IF passKind[p] = "file"
              THEN EnterVariants(p)
              ELSE /\ passPc' = [passPc EXCEPT ![p] = "zxingImage"]
                   /\ UNCHANGED <<passI, finalResult, resultEl, renderedBy,
                                  statusEl, calls>>
  /\ UNCHANGED <<passKind, passFile, attemptCount, cropImage, cropSelected, latest>>
  /\ UNCHANGED nonFileVars

\* nativeDetector.detect settles
NativeDetectDone(p, outcome) ==
  /\ passPc[p] = "nativeDetect"
  /\ IF Usable(outcome)
       THEN Finish(p, passFile[p])
       ELSE IF passKind[p] = "file"
              THEN EnterVariants(p)
              ELSE /\ passPc' = [passPc EXCEPT ![p] = "zxingImage"]
                   /\ UNCHANGED <<passI, finalResult, resultEl, renderedBy,
                                  statusEl, calls>>
  /\ UNCHANGED <<passKind, passFile, attemptCount, cropImage, cropSelected, latest>>
  /\ UNCHANGED nonFileVars

\* imageVariations[i]() settles: the transform is realized, or it fails
VariantDone(p, ok) ==
  /\ passPc[p] = "variant"
  /\ ok = Loads(passFile[p])
  /\ IF ok
       THEN /\ attemptCount' = [attemptCount EXCEPT ![p] = @ + 1]
            /\ passPc' = [passPc EXCEPT ![p] = "decode"]
            /\ Called(p, "baseline", passI[p])
            /\ UNCHANGED <<passI, finalResult, resultEl, renderedBy, statusEl>>
       ELSE /\ NextVariant(p)
            /\ UNCHANGED attemptCount
  /\ UNCHANGED <<passKind, passFile, cropImage, cropSelected, latest>>
  /\ UNCHANGED nonFileVars

\* createImageElement before the single ZXing decode of a crop pass settles
ZXingImageDone(p, ok) ==
  /\ passPc[p] = "zxingImage"
  /\ ok = Loads(passFile[p])
  /\ IF ok
       THEN /\ passPc' = [passPc EXCEPT ![p] = "decode"]
            /\ Called(p, "baseline", Original)
            /\ UNCHANGED <<passI, finalResult, resultEl, renderedBy, statusEl>>
       ELSE Finish(p, Null)
  /\ UNCHANGED <<passKind, passFile, attemptCount, cropImage, cropSelected, latest>>
  /\ UNCHANGED nonFileVars

\* codeReader.decodeFromImageElement settles: text, or not found
DecodeDone(p, found) ==
  /\ passPc[p] = "decode"
  /\ IF found
       THEN Finish(p, passFile[p])
       ELSE IF passKind[p] = "file"
              THEN /\ passPc' = [passPc EXCEPT ![p] = "permissive"]
                   /\ Called(p, "permissive", passI[p])
                   /\ UNCHANGED <<passI, finalResult, resultEl, renderedBy,
                                  statusEl>>
              ELSE Finish(p, Null)
  /\ UNCHANGED <<passKind, passFile, attemptCount, cropImage, cropSelected, latest>>
  /\ UNCHANGED nonFileVars

\* a permissive attempt that is repeated on the same variation when it fails
PermissiveDone_Retry(p, found) ==
  /\ passPc[p] = "permissive"
  /\ IF found
       THEN Finish(p, passFile[p])
       ELSE /\ Called(p, "permissive", passI[p])
            /\ UNCHANGED <<passPc, passI, finalResult, resultEl, renderedBy,
                           statusEl>>
  /\ UNCHANGED <<passKind, passFile, attemptCount, cropImage, cropSelected, latest>>
  /\ UNCHANGED nonFileVars

\* the permissive reader's decodeFromImageElement settles (or building the
\* reader failed): text, or not found
PermissiveDone(p, found) ==
  /\ passPc[p] = "permissive"
  /\ IF found THEN Finish(p, passFile[p]) ELSE NextVariant(p)
  /\ UNCHANGED <<passKind, passFile, attemptCount, cropImage, cropSelected, latest>>
  /\ UNCHANGED nonFileVars

\* the image showCropUI loads settles: onload shows it and hides the selection
ShowCropUILoaded(p, ok) ==
  /\ passPc[p] = "showCropUI"
  /\ ok = Loads(passFile[p])
  /\ passPc' = [passPc EXCEPT ![p] = "done"]
  /\ IF ok
       THEN /\ cropImage' = passFile[p]
            /\ cropSelected' = FALSE
       ELSE UNCHANGED <<cropImage, cropSelected>>
  /\ UNCHANGED <<passKind, passFile, passI, attemptCount, finalResult, statusEl,
                 latest, renderedBy, resultEl, calls>>
  /\ UNCHANGED nonFileVars

\* the user drags a selection rectangle on the crop canvas
SelectArea ==
  /\ cropImage # Null
  /\ ~cropSelected
  /\ cropSelected' = TRUE
  /\ UNCHANGED <<passPc, passKind, passFile, passI, attemptCount, finalResult,
                 cropImage, statusEl, latest, renderedBy, resultEl, calls>>
  /\ UNCHANGED nonFileVars

\* scanCroppedArea(): the selection is drawn to a canvas, toBlob is pending
ScanCroppedArea(p) ==
  /\ IsNextPass(p)
  /\ cropImage # Null
  /\ cropSelected
  /\ passKind' = [passKind EXCEPT ![p] = "crop"]
  /\ passFile' = [passFile EXCEPT ![p] = cropImage]
  /\ passPc' = [passPc EXCEPT ![p] = "toBlob"]
  /\ latest' = p
  /\ UNCHANGED <<passI, attemptCount, finalResult, cropImage, cropSelected,
                 statusEl, renderedBy, resultEl, calls>>
  /\ UNCHANGED nonFileVars

\* the toBlob callback runs: with a blob, or with null
ToBlobDone(p, ok) ==
  /\ passPc[p] = "toBlob"
  /\ IF ok
       THEN /\ statusEl' = "Processing cropped area..."
            /\ passPc' = [passPc EXCEPT
                 ![p] = IF nativeDetector THEN "nativeImage" ELSE "zxingImage"]
       ELSE /\ passPc' = [passPc EXCEPT ![p] = "done"]
            /\ UNCHANGED statusEl
  /\ UNCHANGED <<passKind, passFile, passI, attemptCount, finalResult, cropImage,
                 cropSelected, latest, renderedBy, resultEl, calls>>
  /\ UNCHANGED nonFileVars

NextFile ==
  \/ \E p \in Passes, f \in Files : FileChange(p, f)
  \/ \E p \in Passes, ok \in BOOLEAN : NativeImageDone(p, ok)
  \/ \E p \in Passes, outcome \in NativeOutcomes : NativeDetectDone(p, outcome)
  \/ \E p \in Passes, ok \in BOOLEAN : VariantDone(p, ok)
  \/ \E p \in Passes, ok \in BOOLEAN : ZXingImageDone(p, ok)
  \/ \E p \in Passes, found \in BOOLEAN : DecodeDone(p, found)
  \/ \E p \in Passes, found \in BOOLEAN : PermissiveDone(p, found)
  \/ \E p \in Passes, ok \in BOOLEAN : ShowCropUILoaded(p, ok)
  \/ SelectArea
  \/ \E p \in Passes : ScanCroppedArea(p)
  \/ \E p \in Passes, ok \in BOOLEAN : ToBlobDone(p, ok)

SpecFile == Init /\ [][NextFile]_vars

\* the call file pass p is waiting for returns, with a result or with a
\* failure
Settle(p) ==
  \/ \E ok \in BOOLEAN : NativeImageDone(p, ok)
  \/ \E outcome \in NativeOutcomes : NativeDetectDone(p, outcome)
  \/ \E ok \in BOOLEAN : VariantDone(p, ok)
  \/ \E found \in BOOLEAN : DecodeDone(p, found)
  \/ \E found \in BOOLEAN : PermissiveDone(p, found)

\* one decodeFromFile pass, followed from the file selection to the crop UI
NextFileLive ==
  \/ \E p \in Passes, f \in Files :
       (\A q \in Passes : passPc[q] = "new") /\ FileChange(p, f)
  \/ \E p \in Passes : Settle(p)
  \/ \E p \in Passes, ok \in BOOLEAN : ShowCropUILoaded(p, ok)

\* the pass under the assumption that every image load, transform and
\* backend call that is awaited returns
SpecFileLive ==
  Init /\ [][NextFileLive]_vars /\ \A p \in Passes : WF_vars(Settle(p))

(***************************************************************************)
(* Strings are sequences of characters; the regular expressions of the     *)
(* source are matched character by character.                              *)
(***************************************************************************)
Str1(a) == <<a>>

\* the string of n characters c
Rep(c, n) == [k \in 1..n |-> c]

\* \d
IsDigit(c) == c \in {"0", "1", "9"}

\* \s
IsSpace(c) == c \in {" ", "\t"}

\* the upper-case form of a character (the i flag compares these)
Upper(c) ==
  CASE c = "a" -> "A" [] c = "b" -> "B" [] c = "c" -> "C" [] c = "m" -> "M"
    [] c = "n" -> "N" [] c = "t" -> "T" [] c = "x" -> "X" [] c = "z" -> "Z"
    [] OTHER -> c

\* String.prototype.trim
RECURSIVE TrimStart(_)
TrimStart(str) ==
  IF str # <<>> /\ IsSpace(Head(str)) THEN TrimStart(Tail(str)) ELSE str

RECURSIVE TrimEnd(_)
TrimEnd(str) ==
  IF str # <<>> /\ IsSpace(str[Len(str)])
    THEN TrimEnd(SubSeq(str, 1, Len(str) - 1))
    ELSE str

Trim(str) == TrimEnd(TrimStart(str))

(***************************************************************************)
(* Legacy scanner: selection of a symbol from the list the native detector *)
(* returns (live loop, decodeFromFile, scanCroppedArea).                   *)
(***************************************************************************)
\* /^TBA\d+/i.test(str)
TestTBAPrefix(str) ==
  /\ Len(str) >= 4
  /\ Upper(str[1]) = "T" /\ Upper(str[2]) = "B" /\ Upper(str[3]) = "A"
  /\ IsDigit(str[4])

\* barcodes.find(b => /^TBA\d+/i.test((b.rawValue||'').trim())): the position
\* of the first hit, 0 for undefined
FindTBA(list) ==
  LET hits == {k \in 1..Len(list) : TestTBAPrefix(Trim(list[k]))}
  IN IF hits = {} THEN 0 ELSE CHOOSE k \in hits : \A j \in hits : k <= j

\* position k put into a list of positions sorted by falling rawValue length,
\* behind the positions whose rawValue is as long or longer (sort is stable)
RECURSIVE InsertByLength(_, _, _)
InsertByLength(sorted, k, list) ==
  IF sorted = <<>> THEN <<k>>
  ELSE IF Len(list[Head(sorted)]) >= Len(list[k])
         THEN <<Head(sorted)>> \o InsertByLength(Tail(sorted), k, list)
         ELSE <<k>> \o sorted

\* barcodes.sort((a,b) => b.rawValue.length - a.rawValue.length), as the
\* positions of the first n symbols in sorted order
RECURSIVE SortByLength(_, _)
SortByLength(list, n) ==
  IF n = 0 THEN <<>> ELSE InsertByLength(SortByLength(list, n - 1), n, list)

\* a selection that takes the longest rawValue and knows no TBA preference
BestSymbol_LongestOnly(list) == SortByLength(list, Len(list))[1]

\* best: the TBA symbol found, otherwise the head of the sorted list
BestSymbol(list) ==
  IF FindTBA(list) # 0 THEN FindTBA(list) ELSE SortByLength(list, Len(list))[1]

\* rawValues the native detector can return
RawValues ==
  { <<"T", "B", "A", "1">>,
    <<"t", "b", "a", "1", "9">>,
    <<" ", "T", "B", "A", "1">>,
    <<"T", "B", "A">>,
    <<"T", "B", "A", "x", "1">>,
    <<"x", "T", "B", "A", "1">>,
    Rep("9", 6),
    Rep("9", 5),
    <<"x", "x">>,
    <<"x", "x", " ", " ", " ", " ">>,
    Rep(" ", 3),
    <<>> }

\* the non-empty lists nativeDetector.detect can return
SymbolLists == UNION {[1..n -> RawValues] : n \in 1..MaxSymbols}

\* bars[0] of BarcodeScanner.scanFromVideo and scanFromCanvas
ScannerSymbol(list) == 1

\* nativeDetector.detect returns a non-empty list: a symbol is selected
\* (one detect call is followed from the initial state)
DetectSymbols(list) ==
  /\ barcodes = <<>>
  /\ barcodes' = list
  /\ best' = BestSymbol(list)
  /\ bestScanner' = ScannerSymbol(list)
  /\ UNCHANGED <<smVars, text, picked, extracted, liveTracking, bandVars, pixVars>>
  /\ UNCHANGED <<gateVars, resultEl, now, lastOp, arg, ret, recent, emitAt,
                 nativeDetector, liveVars, appVars, fileVars>>

NextSelect == \E list \in SymbolLists : DetectSymbols(list)

SpecSelect == Init /\ [][NextSelect]_vars

(***************************************************************************)
(* TrackingNumberExtractor: trackingPatterns and pickTracking of the       *)
(* legacy scanner, extractTrackingNumber of the modular scanner, and the   *)
(* extraction of the modular live scan loop.                               *)
(***************************************************************************)
\* [0-9A-Z] under the i flag
IsAlnum(c) == IsDigit(c) \/ Upper(c) \in {"A", "B", "C", "M", "N", "T", "X", "Z"}

\* \w
IsWord(c) == IsAlnum(c) \/ c = "_"

\* str consists of digits only
AllDigits(str) == \A k \in 1..Len(str) : IsDigit(str[k])

\* the n characters of str from position pos on exist and are digits
DigitsAt(str, pos, n) ==
  /\ pos + n - 1 <= Len(str)
  /\ \A k \in pos..(pos + n - 1) : IsDigit(str[k])

\* the first position from pos on that holds no white space
RECURSIVE SkipSpaces(_, _)
SkipSpaces(str, pos) ==
  IF pos <= Len(str) /\ IsSpace(str[pos]) THEN SkipSpaces(str, pos + 1) ELSE pos

\* the digit groups of the spaced USPS form
USPSGroups == <<4, 4, 4, 4, 4, 4, 2>>

\* match digit groups of the given sizes from position pos on, separated by
\* \s? (plus = FALSE) or by \s+ (plus = TRUE); the position behind the
\* match, 0 if there is no match
RECURSIVE MatchGroups(_, _, _, _)
MatchGroups(str, pos, sizes, plus) ==
  IF ~DigitsAt(str, pos, Head(sizes)) THEN 0
  ELSE LET q == pos + Head(sizes)
           space == q <= Len(str) /\ IsSpace(str[q])
           r == IF plus THEN (IF space THEN SkipSpaces(str, q) ELSE 0)
                        ELSE (IF space THEN q + 1 ELSE q)
       IN IF Tail(sizes) = <<>> THEN q
          ELSE IF r = 0 THEN 0
          ELSE MatchGroups(str, r, Tail(sizes), plus)

\* /^1Z[0-9A-Z]{16}$/i
MatchesUPS(str) ==
  /\ Len(str) = 18
  /\ str[1] = "1" /\ Upper(str[2]) = "Z"
  /\ \A k \in 3..18 : IsAlnum(str[k])

\* a FedEx pattern that knows the 12-digit form only
MatchesFedEx_TwelveOnly(str) == AllDigits(str) /\ Len(str) = 12

\* /^(\d{12}|\d{15})$/
MatchesFedEx(str) == AllDigits(str) /\ Len(str) \in {12, 15}

\* a DHL pattern that also takes the 12 digits of FedEx
MatchesDHL_TenOrTwelve(str) == AllDigits(str) /\ Len(str) \in {10, 12}

\* /^(\d{20,22}|\d{4}\s?\d{4}\s?\d{4}\s?\d{4}\s?\d{4}\s?\d{4}\s?\d{2})$/
MatchesUSPS(str) ==
  \/ AllDigits(str) /\ Len(str) \in 20..22
  \/ MatchGroups(str, 1, USPSGroups, FALSE) = Len(str) + 1

\* /^\d{10}$/
MatchesDHL(str) == AllDigits(str) /\ Len(str) = 10

\* /^(TBA\d{12}|AMZN\w{8,})$/i
MatchesAmazon(str) ==
  \/ /\ Len(str) = 15
     /\ Upper(str[1]) = "T" /\ Upper(str[2]) = "B" /\ Upper(str[3]) = "A"
     /\ DigitsAt(str, 4, 12)
  \/ /\ Len(str) >= 12
     /\ Upper(str[1]) = "A" /\ Upper(str[2]) = "M"
     /\ Upper(str[3]) = "Z" /\ Upper(str[4]) = "N"
     /\ \A k \in 5..Len(str) : IsWord(str[k])

\* /^C\d{14}$/
MatchesOnTrac(str) == Len(str) = 15 /\ str[1] = "C" /\ DigitsAt(str, 2, 14)

\* Object.entries(trackingPatterns): the carriers in the order of the table
Carriers == <<"UPS", "FedEx", "USPS", "DHL", "Amazon", "OnTrac">>

\* str.match(trackingPatterns[carrier]) is not null
Matches(carrier, str) ==
  CASE carrier = "UPS" -> MatchesUPS(str)
    [] carrier = "FedEx" -> MatchesFedEx(str)
    [] carrier = "USPS" -> MatchesUSPS(str)
    [] carrier = "DHL" -> MatchesDHL(str)
    [] carrier = "Amazon" -> MatchesAmazon(str)
    [] carrier = "OnTrac" -> MatchesOnTrac(str)
    [] OTHER -> FALSE

\* for (const [carrier, pattern] of Object.entries(...)) from the k-th
\* carrier on: the first match as {carrier, number: match[0]}
RECURSIVE MatchFrom(_, _)
MatchFrom(str, k) ==
  IF k > Len(Carriers) THEN NoMatch
  ELSE IF Matches(Carriers[k], str) THEN [carrier |-> Carriers[k], number |-> str]
  ELSE MatchFrom(str, k + 1)

MatchTable(str) == MatchFrom(str, 1)

\* a removal of the first white-space character only
RemoveSpaces_FirstOnly(str) ==
  LET hits == {k \in 1..Len(str) : IsSpace(str[k])}
      first == CHOOSE k \in hits : \A j \in hits : k <= j
  IN IF hits = {} THEN str
     ELSE SubSeq(str, 1, first - 1) \o SubSeq(str, first + 1, Len(str))

\* str.replace(/\s+/g, '')
RemoveSpaces(str) == SelectSeq(str, LAMBDA c : ~IsSpace(c))

\* str.match(/(\d{4}\s+\d{4}\s+\d{4}\s+\d{4}\s+\d{4}\s+\d{4}\s+\d{2})/) from
\* position pos on: the leftmost match, <<>> for null
RECURSIVE SpacedFrom(_, _)
SpacedFrom(str, pos) ==
  IF pos > Len(str) THEN <<>>
  ELSE IF MatchGroups(str, pos, USPSGroups, TRUE) # 0
         THEN SubSeq(str, pos, MatchGroups(str, pos, USPSGroups, TRUE) - 1)
         ELSE SpacedFrom(str, pos + 1)

\* str.match(/(\d{20,22})/) from position pos on: the leftmost match, as
\* long as it can be, <<>> for null
RECURSIVE LongNumberFrom(_, _)
LongNumberFrom(str, pos) ==
  IF pos > Len(str) THEN <<>>
  ELSE IF DigitsAt(str, pos, 22) THEN SubSeq(str, pos, pos + 21)
  ELSE IF DigitsAt(str, pos, 21) THEN SubSeq(str, pos, pos + 20)
  ELSE IF DigitsAt(str, pos, 20) THEN SubSeq(str, pos, pos + 19)
  ELSE LongNumberFrom(str, pos + 1)

\* a pickTracking that looks for the spaced USPS groups before it removes
\* the white space
pickTracking_SpacedBeforeClean(str) ==
  IF MatchTable(str) # NoMatch THEN MatchTable(str)
  ELSE IF SpacedFrom(str, 1) # <<>>
    THEN [carrier |-> "USPS", number |-> SpacedFrom(str, 1)]
  ELSE IF MatchTable(RemoveSpaces(str)) # NoMatch THEN MatchTable(RemoveSpaces(str))
  ELSE IF LongNumberFrom(str, 1) # <<>>
    THEN [carrier |-> "USPS", number |-> LongNumberFrom(str, 1)]
  ELSE NoMatch

\* pickTracking(text)
pickTracking(str) ==
  IF MatchTable(str) # NoMatch THEN MatchTable(str)
  ELSE IF MatchTable(RemoveSpaces(str)) # NoMatch THEN MatchTable(RemoveSpaces(str))
  ELSE IF SpacedFrom(str, 1) # <<>>
    THEN [carrier |-> "USPS", number |-> SpacedFrom(str, 1)]
  ELSE IF LongNumberFrom(str, 1) # <<>>
    THEN [carrier |-> "USPS", number |-> LongNumberFrom(str, 1)]
  ELSE NoMatch

\* BarcodeScanner.extractTrackingNumber(text): its own table has the same
\* six patterns in the same order
extractTrackingNumber(str) ==
  IF str = <<>> THEN NoMatch
  ELSE IF MatchTable(str) # NoMatch THEN MatchTable(str)
  ELSE MatchTable(RemoveSpaces(str))

\* the group separator character, String.fromCharCode(29)
GS == "GS"

\* str.split(GS): the part behind the last GS
RECURSIVE LastPart(_)
LastPart(str) ==
  IF str = <<>> THEN <<>>
  ELSE IF str[Len(str)] = GS THEN <<>>
  ELSE Append(LastPart(SubSeq(str, 1, Len(str) - 1)), str[Len(str)])

\* the tracking startLiveScanLoop builds for a result text without parsed
\* tracking: extractTrackingNumber, then the GS fallback
LiveTracking(str) ==
  IF extractTrackingNumber(str) # NoMatch THEN extractTrackingNumber(str)
  ELSE LET last == RemoveSpaces(LastPart(str))
       IN IF /\ \E k \in 1..Len(str) : str[k] = GS
             /\ AllDigits(last) /\ Len(last) \in 20..30
            THEN [carrier |-> "USPS", number |-> last]
            ELSE NoMatch

\* digit groups of the given sizes, joined by sep
RECURSIVE Grouped(_, _)
Grouped(sizes, sep) ==
  IF Len(sizes) = 1 THEN Rep("1", Head(sizes))
  ELSE Rep("1", Head(sizes)) \o sep \o Grouped(Tail(sizes), sep)

\* the cores of the texts given to the extractor
Cores ==
  {Rep("1", n) : n \in 9..MaxDigits}
  \cup {Grouped(USPSGroups, sep) : sep \in {<<" ">>, <<" ", " ">>, <<"\t">>}}
  \cup {Grouped(<<4, 4, 4, 4, 4, 2>>, <<" ">>), Grouped(<<4, 4, 2>>, <<" ">>),
        <<"9", "1", "0", "0", " ", "1", "9", "0", "1", " ", "0", "9", "1", "0", " ",
          "1", "1", "0", "0", " ", "0", "1", "1", "1", " ", "1", "9">>,
        Grouped(<<4, 4, 4>>, <<" ", " ">>)}
  \cup {<<"1", "Z">> \o Rep("9", 16), <<"1", "z">> \o Rep("x", 16),
        <<"1", "Z">> \o Rep("9", 15), <<"1", "Z">> \o Rep("9", 15) \o <<"-">>,
        <<"1", "Z", " ">> \o Rep("9", 16)}
  \cup {<<"T", "B", "A">> \o Rep("0", 12), <<"t", "b", "a">> \o Rep("0", 12),
        <<"T", "B", "A">> \o Rep("0", 11),
        <<"A", "M", "Z", "N">> \o Rep("X", 8), <<"a", "m", "z", "n">> \o Rep("1", 9),
        <<"A", "M", "Z", "N">> \o Rep("X", 7),
        <<"A", "M", "Z", "N">> \o Rep("1", 7) \o <<"_">>,
        <<"A", "M", "Z", "N">> \o Rep("1", 7) \o <<"-">>}
  \cup {<<"C">> \o Rep("1", 14), <<"c">> \o Rep("1", 14), <<"C">> \o Rep("1", 13)}
  \cup {<<>>}

\* the texts given to the extractor: a core, alone or inside other text
Texts ==
  {pre \o core \o post :
     pre \in {<<>>, <<"X">>, <<" ">>, <<"X", " ">>, <<"X", GS>>},
     core \in Cores,
     post \in {<<>>, <<" ">>, <<" ", "X">>}}

\* a decoded text is given to the extractors (one text is followed from the
\* initial state)
PickTracking(t) ==
  /\ text = <<>>
  /\ t # <<>>
  /\ text' = t
  /\ picked' = pickTracking(t)
  /\ extracted' = extractTrackingNumber(t)
  /\ liveTracking' = LiveTracking(t)
  /\ UNCHANGED <<smVars, barcodes, best, bestScanner, bandVars, pixVars>>
  /\ UNCHANGED <<gateVars, resultEl, now, lastOp, arg, ret, recent, emitAt,
                 nativeDetector, liveVars, appVars, fileVars>>

NextPick == \E t \in Texts : PickTracking(t)

SpecPick == Init /\ [][NextPick]_vars

(***************************************************************************)
(* BandDetector and the fixed-region crop of the legacy scanner:           *)
(* detectBarcodeBandFromCanvas and createCroppedCanvas.  A surface is the  *)
(* ImageData of a canvas: width, height and the RGBA bytes, row by row.    *)
(* Luminance is kept in thousandths (299 r + 587 g + 114 b), which is      *)
(* exact; the rounding of the floating-point sums is not modelled.         *)
(***************************************************************************)
Max(a, b) == IF a >= b THEN a ELSE b

Min(a, b) == IF a <= b THEN a ELSE b

Abs(a) == IF a >= 0 THEN a ELSE 0 - a

\* 0.299 * r + 0.587 * g + 0.114 * b of the pixel whose bytes start at data[i]
\* (i counted from 0), in thousandths
Luminance(data, i) == 299 * data[i + 1] + 587 * data[i + 2] + 114 * data[i + 3]

\* score of row y: the sum over x from x0 to width - 2 of |l2 - l1|
RECURSIVE RowScoreFrom(_, _, _)
RowScoreFrom(img, y, x0) ==
  IF x0 >= img.width - 1 THEN 0
  ELSE LET i == y * img.width * 4 + x0 * 4
       IN Abs(Luminance(img.data, i + 4) - Luminance(img.data, i))
            + RowScoreFrom(img, y, x0 + 1)

\* rowScores of a surface
RowScores(img) == [k \in 1..img.height |-> RowScoreFrom(img, k - 1, 0)]

\* a window of 8 rows at least
MinWindow == 8

\* Math.max(8, Math.floor(srcH * bandFraction)) for the bandFraction 0.25
\* that createBandCanvasFromFile passes
WindowH(h) == Max(MinWindow, h \div 4)

\* the width of the surfaces given to the band detector
BandWidth == 2

\* gray levels of the second pixel of the band row at offset k of a band of
\* len rows (the first pixel is black)
BandShapes == {"flat", "rise", "fall"}

BandLevel(shape, k, len) ==
  CASE shape = "flat" -> 2
    [] shape = "rise" -> 1 + k
    [] shape = "fall" -> len - k

\* a surface of height h, uniformly gray but for the rows a .. a + len - 1,
\* which hold a black and a lighter pixel
BandImage(h, a, len, shape) ==
  [width |-> BandWidth, height |-> h,
   data |-> [k \in 1..(h * BandWidth * 4) |->
               LET y == (k - 1) \div (BandWidth * 4)
                   x == ((k - 1) % (BandWidth * 4)) \div 4
                   ch == (k - 1) % 4
               IN IF ch = 3 THEN 255
                  ELSE IF y < a \/ y >= a + len THEN 7
                  ELSE IF x = 0 THEN 0
                  ELSE BandLevel(shape, y - a, len)]]

\* heights of the surfaces given to the band detector
Heights == (1..MaxRows) \cup {4 * MaxRows, 4 * MaxRows + 4}

\* the surfaces given to the band detector: every band of the low surfaces,
\* the bands of the tall ones that start and end on a multiple of 4, and the
\* surfaces without band
BandImages ==
  {BandImage(h, a, len, shape) :
     h \in 1..MaxRows, a \in 0..(MaxRows - 1), len \in 0..MaxRows,
     shape \in BandShapes}
  \cup {BandImage(h, 4 * a, 4 * len, shape) :
     h \in Heights \ (1..MaxRows), a \in 0..(MaxRows + 1), len \in 1..(MaxRows + 1),
     shape \in BandShapes}

\* detectBarcodeBandFromCanvas, to the start of the sliding window
DetectBandStart(img) ==
  /\ bandPc = "idle"
  /\ bandPc' = "slide"
  /\ srcH' = img.height
  /\ rowScores' = RowScores(img)
  /\ bestSum' = 0 - 1
  /\ bestY' = 0
  /\ running' = 0
  /\ bandY' = 0
  /\ UNCHANGED <<cropY, cropH>>
  /\ UNCHANGED <<smVars, barcodes, best, bestScanner, text, picked, extracted, liveTracking, pixVars>>
  /\ UNCHANGED <<gateVars, resultEl, now, lastOp, arg, ret, recent, emitAt,
                 nativeDetector, liveVars, appVars, fileVars>>

\* running after the body of the loop for row y
SlidRunning(y, windowH) ==
  IF y >= windowH
    THEN running + rowScores[y + 1] - rowScores[y - windowH + 1]
    ELSE running + rowScores[y + 1]

\* a comparison that lets a later window of equal sum win
Better_OrEqual(sum, bestSoFar) == sum >= bestSoFar

\* if (running > bestSum)
Better(sum, bestSoFar) == sum > bestSoFar

\* a start that is taken for the last row of the window
WindowStart_LastRow(y, windowH) == y

\* const start = y - (windowH - 1)
WindowStart(y, windowH) == y - (windowH - 1)

\* one iteration of the sliding-window loop
SlideWindow ==
  /\ bandPc = "slide"
  /\ bandY < srcH
  /\ LET windowH == WindowH(srcH)
         sum == SlidRunning(bandY, windowH)
         start == WindowStart(bandY, windowH)
     IN /\ running' = sum
        /\ IF bandY >= windowH - 1 /\ Better(sum, bestSum)
             THEN bestSum' = sum /\ bestY' = start
             ELSE UNCHANGED <<bestSum, bestY>>
  /\ bandY' = bandY + 1
  /\ UNCHANGED <<bandPc, srcH, rowScores, cropY, cropH>>
  /\ UNCHANGED <<smVars, barcodes, best, bestScanner, text, picked, extracted, liveTracking, pixVars>>
  /\ UNCHANGED <<gateVars, resultEl, now, lastOp, arg, ret, recent, emitAt,
                 nativeDetector, liveVars, appVars, fileVars>>

\* the region a crop that does not clamp its height would take
BandHeight_Unclamped(h, y0, windowH) == windowH

\* Math.min(srcH - cropY, windowH)
BandHeight(h, y0, windowH) == Min(h - y0, windowH)

\* the loop is over: crop the detected band
CropBand ==
  /\ bandPc = "slide"
  /\ bandY = srcH
  /\ bandPc' = "band"
  /\ cropY' = Max(0, bestY)
  /\ cropH' = BandHeight(srcH, Max(0, bestY), WindowH(srcH))
  /\ UNCHANGED <<srcH, rowScores, bandY, running, bestSum, bestY>>
  /\ UNCHANGED <<smVars, barcodes, best, bestScanner, text, picked, extracted, liveTracking, pixVars>>
  /\ UNCHANGED <<gateVars, resultEl, now, lastOp, arg, ret, recent, emitAt,
                 nativeDetector, liveVars, appVars, fileVars>>

\* the (yStartFraction, heightFraction) pairs createCroppedCanvas is called
\* with, in hundredths
CropFractions == {<<55, 35>>, <<35, 40>>}

\* Math.floor(h * f) for the fraction f of n hundredths: the floor of the
\* exact product, or one less where the product is whole and its
\* floating-point value may fall short of it
Floors(h, n) ==
  {(h * n) \div 100} \cup
    (IF (h * n) % 100 = 0 /\ h * n > 0 THEN {((h * n) \div 100) - 1} ELSE {})

\* createCroppedCanvas(file, yStartFraction, heightFraction, scale) on a
\* source of height h
CreateCroppedCanvas(h, fr) ==
  /\ bandPc = "idle"
  /\ bandPc' = "fixed"
  /\ srcH' = h
  /\ \E ys \in Floors(h, fr[1]), hs \in Floors(h, fr[2]) :
       /\ cropY' = Max(0, ys)
       /\ cropH' = Min(h - Max(0, ys), hs)
  /\ UNCHANGED <<rowScores, bandY, running, bestSum, bestY>>
  /\ UNCHANGED <<smVars, barcodes, best, bestScanner, text, picked, extracted, liveTracking, pixVars>>
  /\ UNCHANGED <<gateVars, resultEl, now, lastOp, arg, ret, recent, emitAt,
                 nativeDetector, liveVars, appVars, fileVars>>

NextBand ==
  \/ \E img \in BandImages : DetectBandStart(img)
  \/ SlideWindow
  \/ CropBand
  \/ \E h \in Heights, fr \in CropFractions : CreateCroppedCanvas(h, fr)

SpecBand == Init /\ [][NextBand]_vars

(***************************************************************************)
(* Pixel transforms of the legacy scanner: createAdaptiveThresholdCanvas   *)
(* and createInvertedCanvas, on the ImageData read from the canvas.        *)
(***************************************************************************)
\* the pixels the surfaces are made of: R, G, B, A
Palette == << <<0, 0, 0, 255>>, <<255, 255, 255, 255>>,
             <<10, 200, 30, 128>>, <<1, 254, 127, 0>> >>

\* the surface of w by h pixels whose pixel (x, y) is the palette colour
\* (a * x + b * y + c) modulo the size of the palette
PatternImage(w, h, a, b, c) ==
  [width |-> w, height |-> h,
   data |-> [k \in 1..(w * h * 4) |->
               LET y == (k - 1) \div (w * 4)
                   x == ((k - 1) % (w * 4)) \div 4
                   ch == (k - 1) % 4
               IN Palette[((a * x + b * y + c) % Len(Palette)) + 1][ch + 1]]]

\* the surfaces given to the pixel transforms
PatternImages ==
  {PatternImage(w, h, a, b, c) :
     w \in 1..MaxSide, h \in 1..MaxSide,
     a \in 0..(Len(Palette) - 1), b \in 0..(Len(Palette) - 1),
     c \in 0..(Len(Palette) - 1)}

\* the C arguments createAdaptiveThresholdCanvas is called with
ThresholdCs == {10, 12}

\* rowSum after the inner loop has reached column x of row y (both counted
\* from 1), in thousandths
RECURSIVE RowSumTo(_, _, _)
RowSumTo(img, y, x) ==
  IF x = 0 THEN 0
  ELSE RowSumTo(img, y, x - 1)
         + Luminance(img.data, ((y - 1) * img.width + (x - 1)) * 4)

\* integral[y * (w + 1) + x] as the two loops leave it
RECURSIVE IntegralAt(_, _, _)
IntegralAt(img, y, x) ==
  IF y = 0 \/ x = 0 THEN 0
  ELSE IntegralAt(img, y - 1, x) + RowSumTo(img, y, x)

\* the Float64Array integral of (w + 1) * (h + 1) entries
Integral(img) ==
  [k \in 1..((img.width + 1) * (img.height + 1)) |->
     IntegralAt(img, (k - 1) \div (img.width + 1), (k - 1) % (img.width + 1))]

\* a lookup that leaves out the corner above and left of the window
CornerSum_WithoutA(int, w, x1, y1, x2, y2) ==
  int[(y2 + 1) * (w + 1) + (x2 + 1) + 1] - int[y1 * (w + 1) + (x2 + 1) + 1]
    - int[(y2 + 1) * (w + 1) + x1 + 1]

\* integral[D] - integral[B] - integral[Cidx] + integral[A]
CornerSum(int, w, x1, y1, x2, y2) ==
  int[(y2 + 1) * (w + 1) + (x2 + 1) + 1] - int[y1 * (w + 1) + (x2 + 1) + 1]
    - int[(y2 + 1) * (w + 1) + x1 + 1] + int[y1 * (w + 1) + x1 + 1]

\* Math.max(1, Math.floor(window))
HalfWidth(window) == Max(1, window)

\* val of the pixel (x, y): 0 if lum < mean - C, else 255, the mean being
\* sum / count (compared in thousandths, multiplied by count)
ThresholdAt(img, int, ws, c, x, y) ==
  LET w == img.width
      h == img.height
      y1 == Max(0, y - ws)
      y2 == Min(h - 1, y + ws)
      x1 == Max(0, x - ws)
      x2 == Min(w - 1, x + ws)
      sum == CornerSum(int, w, x1, y1, x2, y2)
      count == (y2 - y1 + 1) * (x2 - x1 + 1)
      lum == Luminance(img.data, (y * w + x) * 4)
  IN IF lum * count < sum - 1000 * c * count THEN 0 ELSE 255

\* createAdaptiveThresholdCanvas(file, window, C, scale), from the ImageData
\* of the scaled canvas on
CreateAdaptiveThresholdCanvas(img, window, c) ==
  /\ source = NoSurface
  /\ source' = img
  /\ thWindow' = window
  /\ thC' = c
  /\ integral' = Integral(img)
  /\ outData' = [k \in 1..(img.width * img.height * 4) |->
                   IF (k - 1) % 4 = 3 THEN 255
                   ELSE ThresholdAt(img, Integral(img), HalfWidth(window), c,
                                    ((k - 1) \div 4) % img.width,
                                    ((k - 1) \div 4) \div img.width)]
  /\ UNCHANGED <<invData, invCount>>
  /\ UNCHANGED <<smVars, barcodes, best, bestScanner, text, picked, extracted, liveTracking, bandVars>>
  /\ UNCHANGED <<gateVars, resultEl, now, lastOp, arg, ret, recent, emitAt,
                 nativeDetector, liveVars, appVars, fileVars>>

\* an inversion of all four channels
Inverted_AllChannels(data) == [k \in 1..Len(data) |-> 255 - data[k]]

\* data[i] = 255 - data[i] for the R, G and B bytes of every pixel
Inverted(data) ==
  [k \in 1..Len(data) |-> IF (k - 1) % 4 = 3 THEN data[k] ELSE 255 - data[k]]

\* createInvertedCanvas on a surface
CreateInvertedCanvas(img) ==
  /\ source = NoSurface
  /\ source' = img
  /\ invData' = Inverted(img.data)
  /\ invCount' = 1
  /\ UNCHANGED <<integral, outData, thWindow, thC>>
  /\ UNCHANGED <<smVars, barcodes, best, bestScanner, text, picked, extracted, liveTracking, bandVars>>
  /\ UNCHANGED <<gateVars, resultEl, now, lastOp, arg, ret, recent, emitAt,
                 nativeDetector, liveVars, appVars, fileVars>>

\* createInvertedCanvas on the surface a former inversion produced
InvertAgain ==
  /\ invCount \in 1..2
  /\ invData' = Inverted(invData)
  /\ invCount' = invCount + 1
  /\ UNCHANGED <<source, integral, outData, thWindow, thC>>
  /\ UNCHANGED <<smVars, barcodes, best, bestScanner, text, picked, extracted, liveTracking, bandVars>>
  /\ UNCHANGED <<gateVars, resultEl, now, lastOp, arg, ret, recent, emitAt,
                 nativeDetector, liveVars, appVars, fileVars>>

NextPixels ==
  \/ \E img \in PatternImages, window \in 1..MaxWindow, c \in ThresholdCs :
       CreateAdaptiveThresholdCanvas(img, window, c)
  \/ \E img \in PatternImages : CreateInvertedCanvas(img)
  \/ InvertAgain

SpecPixels == Init /\ [][NextPixels]_vars

(***************************************************************************)
(* StateMachine of the modular app: on, setState, _emit.                   *)
(***************************************************************************)
\* the states the app sets
AppStates == {"idle", "live-camera", "static-preview"}

\* what a listener does when it is called
ListenerKinds == {"returns", "throws"}

\* an _emit without try/catch around the call of the listener: the calls
\* made from listener k on, and whether an exception leaves the loop
RECURSIVE Emit_NoCatch(_, _, _, _)
Emit_NoCatch(fns, k, new, old) ==
  IF k > Len(fns) THEN [calls |-> <<>>, error |-> FALSE]
  ELSE IF fns[k] = "throws" THEN [calls |-> <<<<k, new, old>>>>, error |-> TRUE]
  ELSE [calls |-> <<<<k, new, old>>>> \o Emit_NoCatch(fns, k + 1, new, old).calls,
        error |-> Emit_NoCatch(fns, k + 1, new, old).error]

\* _emit(eventName, ...args): forEach(fn => { try { fn(...args) } catch ... })
\* from listener k on
RECURSIVE Emit(_, _, _, _)
Emit(fns, k, new, old) ==
  IF k > Len(fns) THEN [calls |-> <<>>, error |-> FALSE]
  ELSE [calls |-> <<<<k, new, old>>>> \o Emit(fns, k + 1, new, old).calls,
        error |-> Emit(fns, k + 1, new, old).error]

\* on('stateChange', fn)
On(kind) ==
  /\ Len(listeners) < MaxListeners
  /\ listeners' = Append(listeners, kind)
  /\ UNCHANGED <<smState, invoked, escaped>>
  /\ UNCHANGED <<barcodes, best, bestScanner, text, picked, extracted,
                 liveTracking, bandVars, pixVars>>
  /\ UNCHANGED <<gateVars, resultEl, now, lastOp, arg, ret, recent, emitAt,
                 nativeDetector, liveVars, appVars, fileVars>>

\* setState(newState)
SetState(newState) ==
  /\ smState' = newState
  /\ invoked' = Emit(listeners, 1, newState, smState).calls
  /\ escaped' = Emit(listeners, 1, newState, smState).error
  /\ UNCHANGED listeners
  /\ UNCHANGED <<barcodes, best, bestScanner, text, picked, extracted,
                 liveTracking, bandVars, pixVars>>
  /\ UNCHANGED <<gateVars, resultEl, now, lastOp, arg, ret, recent, emitAt,
                 nativeDetector, liveVars, appVars, fileVars>>

NextStateMachine ==
  \/ \E kind \in ListenerKinds : On(kind)
  \/ \E newState \in AppStates : SetState(newState)

SpecStateMachine == Init /\ [][NextStateMachine]_vars

(***************************************************************************)
(* Properties of the StabilityGate (checked under SpecGate).               *)
(***************************************************************************)
\* the step just taken was a maybeEmit call
GateCalled == lastOp' = "maybeEmit"

\* the window holds STABLE_FRAMES reads of the one candidate c
ThreeOf(w, c) == w = <<c, c, c>>

\* no candidate has been emitted yet
NeverEmitted == DOMAIN emitAt = {}

\* C1: on every maybeEmit call with a non-null candidate the streak is
\* updated (same candidate: streak + 1, otherwise previousCandidate =
\* candidate and streak = 1) and the call emits iff streak >= 3 and
\* (candidate # lastEmitted or now > cooldownUntil); an emitting call sets
\* lastEmitted = candidate and cooldownUntil = now + 900, a non-emitting call
\* leaves both unchanged.
C1_EmitRule ==
  [][ (GateCalled /\ arg' # Null) =>
        LET streak == IF arg' = prevCandidate THEN stableCount + 1 ELSE 1
            emits  == streak >= 3 /\ (arg' # lastTracking \/ now > cooldownUntil)
        IN  /\ prevCandidate' = arg'
            /\ stableCount' = streak
            /\ ret' = emits
            /\ ret' => /\ lastTracking' = arg'
                       /\ cooldownUntil' = now + 900
                       /\ resultEl' = arg'
            /\ ~ret' => UNCHANGED <<lastTracking, cooldownUntil>> ]_vars

\* C1 witness: A, still the last emitted candidate, is emitted again by a
\* call made after its cooldown ran out.
C1_Witness ==
  /\ lastOp = "maybeEmit" /\ ret /\ arg = "A"
  /\ stableCount > 3
  /\ lastTracking = "A" /\ cooldownUntil = now + 900 /\ now > 900

\* C2: starting from the initial StabilityState, as long as nothing has been
\* emitted a call emits exactly when it is the 3rd consecutive read of one
\* same candidate, and it emits that candidate.
C2_FirstEmission ==
  [][ (GateCalled /\ NeverEmitted) =>
        /\ ret' <=> \E c \in Candidates : ThreeOf(recent', c)
        /\ ret' => resultEl' = arg' /\ ThreeOf(recent', arg') ]_vars

\* C2 witness: the first emission of all, made on the third read of A in a row.
C2_Witness ==
  /\ lastOp = "maybeEmit" /\ ret /\ ThreeOf(recent, "A")
  /\ now = 0 /\ DOMAIN emitAt = {"A"} /\ emitAt["A"] = 0

\* C3 as stated: once c was emitted at time t, no call made at a time up to
\* and including t + 900 emits c again, whatever was fed in between.
C3_NoReEmitWithinCooldown ==
  [][ (GateCalled /\ ret' /\ arg' \in DOMAIN emitAt) =>
        now > emitAt[arg'] + 900 ]_vars

\* C3 amended: once c was emitted at time t, no call made at a time up to and
\* including t + 900 emits c again as long as c is still the last emitted
\* candidate (no other candidate was emitted in between).
C3_NoReEmitWhileLast ==
  [][ (GateCalled /\ ret' /\ arg' \in DOMAIN emitAt /\ lastTracking = arg') =>
        now > emitAt[arg'] + 900 ]_vars

\* C3 witness: A is read again exactly 900 ms after its emission, with a
\* streak long enough to emit, and is held back.
C3_Witness ==
  /\ lastOp = "maybeEmit" /\ ~ret /\ arg = "A" /\ stableCount >= 3
  /\ lastTracking = "A" /\ "A" \in DOMAIN emitAt /\ now = emitAt["A"] + 900

\* C4: a candidate that differs from lastEmitted and is read on 3 consecutive
\* gate calls while now <= cooldownUntil is emitted by the 3rd call;
\* lastEmitted becomes that candidate and the cooldown restarts from the
\* call's time.
C4_DifferentCandidateInterrupts ==
  [][ (GateCalled /\ ThreeOf(recent', arg') /\ arg' # Null
         /\ arg' # lastTracking /\ now <= cooldownUntil) =>
        /\ ret'
        /\ resultEl' = arg'
        /\ lastTracking' = arg'
        /\ cooldownUntil' = now + 900 ]_vars

\* C4 witness: B is emitted 450 ms after A, inside A's cooldown.
C4_Witness ==
  /\ lastOp = "maybeEmit" /\ ret /\ arg = "B" /\ ThreeOf(recent, "B")
  /\ DOMAIN emitAt = {"A", "B"} /\ emitAt["B"] = now /\ now = emitAt["A"] + 450

\* C5: a null gate input resets streak to 0 and previousCandidate to null,
\* emits nothing and leaves lastEmitted and cooldownUntil unchanged; hence no
\* call emits unless the last 3 gate inputs, itself included, are non-null.
C5_NullResets ==
  [][ GateCalled =>
        /\ arg' = Null => /\ stableCount' = 0
                          /\ prevCandidate' = Null
                          /\ ~ret'
                          /\ UNCHANGED <<lastTracking, cooldownUntil, resultEl>>
        /\ ret' => /\ Len(recent') = 3
                   /\ \A i \in 1..3 : recent'[i] = arg' /\ arg' # Null ]_vars

\* C5 witness: A read twice, a null, then A again twice: no emission yet.
C5_Witness ==
  /\ lastOp = "maybeEmit" /\ ~ret
  /\ recent = <<Null, "A", "A">> /\ stableCount = 2 /\ lastTracking = Null

(***************************************************************************)
(* Properties of the legacy live session (checked under SpecLive).         *)
(***************************************************************************)
\* C6: StabilityState is reset fully on session stop: after stopDecoding
\* completes, previousCandidate is null, streak is 0, lastEmitted is null and
\* the cooldown is cleared.
C6_StopResetsStabilityState ==
  lastOp = "stopDecoding" =>
    /\ prevCandidate = Null
    /\ stableCount = 0
    /\ lastTracking = Null
    /\ cooldownUntil = 0

\* C8: once stopDecoding has deactivated the session and until scanning is
\* started again, no emission reaches the consumer and StabilityState is not
\* modified, also when a native detect call was in flight at the stop.
C8_NoGateCallAfterStop ==
  [][ (deactivated /\ deactivated') => UNCHANGED <<gateVars, resultEl>> ]_vars

(***************************************************************************)
(* Properties of the modular app (checked under SpecApp).                  *)
(***************************************************************************)
\* C7: no overlapping live decode attempts: a loop of an earlier session that
\* was suspended when the session was deactivated never resumes iterating
\* (never starts another scanFromVideo) once a later session has set the
\* shared active flag again.
C7_StaleLoopNeverResumes ==
  [][ \A h \in CameraStarts :
        (stale[h] # "no" /\ scanLoopPc[h] = "sleep") => scanLoopPc'[h] # "scan" ]_vars

\* C9: a scanFromVideo call that was in flight when handleReset ran and that
\* completes afterwards is discarded: the app state does not change,
\* handleScanResult is not invoked, the camera is not stopped and the active
\* flag is not cleared.
C9_StaleScanResultDiscarded ==
  [][ \A h \in CameraStarts :
        (stale[h] = "scan" /\ scanLoopPc[h] = "scan" /\ scanLoopPc'[h] # "scan") =>
          UNCHANGED <<appState, delivered, scannerStream, liveScanActive>> ]_vars

\* C16: the fallback decoder runs if and only if the native step yields no
\* usable text.  For scanFromCanvas: when nativeDetector.detect settles with
\* an error, an empty list or a symbol whose trimmed text is empty, the scan
\* goes on to the fallback decoder; when it settles with non-empty text the
\* scan ends there, without a fallback call.
C16_FallbackIffNoUsableNativeText ==
  [][ \A u \in Uploads :
        (uploadPc[u] = "detect" /\ uploadPc'[u] # "detect") =>
          /\ Usable(uploadNative'[u]) => uploadPc'[u] = "done"
          /\ ~Usable(uploadNative'[u]) => uploadPc'[u] = "scan" ]_vars

\* C17: in live mode of the modular app a result is delivered, and the live
\* session ended, only when the same tracking number was read on
\* STABLE_FRAMES consecutive frames.
C17_DeliveryOnlyAfterStableFrames ==
  [][ \A h \in CameraStarts :
        ( /\ scanLoopPc[h] = "scan"
          /\ reads'[h] # reads[h]
          /\ (delivered' # delivered \/ appState' # appState
                \/ scanLoopPc'[h] = "done") ) =>
          \E c \in Candidates : ThreeOf(reads'[h], c) ]_vars

\* C36: an image source that fails returns the app to idle: when getUserMedia
\* rejects in handleStartCamera or startCameraWithDevice, or the image fails
\* to load in handleFileUpload, the state becomes idle and no live scan loop
\* is started; and a loop that was running at the failure exits when it next
\* tests its loop condition.
C36_SourceFailureReturnsToIdle ==
  [][ /\ \A h \in CameraStarts :
           (camPc[h] \in {"getUserMedia", "getUserMediaDevice"} /\ camPc'[h] = "done") =>
             /\ appState' = "idle"
             /\ UNCHANGED <<scanLoopPc, liveScanActive>>
      /\ \A u \in Uploads :
           (uploadPc[u] = "load" /\ uploadPc'[u] = "done") =>
             /\ appState' = "idle"
             /\ UNCHANGED <<scanLoopPc, liveScanActive>>
      /\ \A h \in CameraStarts :
           (failedSince[h] /\ scanLoopPc[h] = "sleep" /\ scanLoopPc'[h] # "sleep") =>
             scanLoopPc'[h] = "done" ]_vars

\* C37: whenever the app state is not live-camera, scanner.currentStream is
\* null.
C37_NoStreamOutsideLiveCamera ==
  appState # "live-camera" => scannerStream = NoStart

(***************************************************************************)
(* Properties of the file and crop decode passes (checked under SpecFile). *)
(***************************************************************************)
\* C10: decode passes do not interleave: at most one pass is in progress at
\* any time, and once no pass is in progress the result on screen is that of
\* the most recently requested image whenever that image was decoded.
C10_DecodePassesDoNotInterleave ==
  /\ Cardinality({p \in Passes : InProgress(p)}) <= 1
  /\ ( /\ \A p \in Passes : ~InProgress(p)
       /\ latest # NoStart
       /\ finalResult[latest] # Null ) => renderedBy = latest

\* the positions of the calls of pass p
CallIx(p) == 1..Len(calls[p])

\* the file passes that have been requested
FilePasses == {p \in Passes : passKind[p] = "file"}

\* a call on surface a is a call on the surface of variation b: variation 1
\* (createImageElement(file)) is the image the native step is given
SameSurface(a, b) == a = b \/ (a = Original /\ b = 1)

\* C11: with a native detector, the fallback backend is invoked on a
\* variation only after the native backend was invoked on that variation's
\* surface, for every variation of the list.
C11_NativeBeforeFallbackOnEachVariant ==
  nativeDetector =>
    \A p \in FilePasses : \A k \in CallIx(p) :
      calls[p][k][1] = "baseline" =>
        \E j \in 1..(k - 1) :
          /\ calls[p][j][1] = "native"
          /\ SameSurface(calls[p][j][2], calls[p][k][2])

\* the pass has reached its final outcome
Finished(p) == passPc[p] \in {"showCropUI", "done"}

\* the variation of the call before the k-th call of pass p (0 when the k-th
\* call is the first, or follows the native step)
PrevVariation(p, k) == IF k = 1 THEN Original ELSE calls[p][k - 1][2]

\* C12: the variations are realized strictly in list order (a transform call
\* is for the variation after the one of the call before it, a fallback call
\* is for the variation realized last), and a pass that ended with text
\* ended on a backend call: its text is the image's, no later variation was
\* realized and no further call was made.
C12_ShortCircuitOnFirstSuccess ==
  \A p \in FilePasses :
    /\ \A k \in CallIx(p) :
         /\ calls[p][k][1] = "transform" =>
              calls[p][k][2] = PrevVariation(p, k) + 1
         /\ calls[p][k][1] \in {"baseline", "permissive"} =>
              calls[p][k][2] = PrevVariation(p, k)
    /\ (Finished(p) /\ finalResult[p] # Null) =>
         /\ finalResult[p] = passFile[p]
         /\ calls[p][Len(calls[p])][1] \in {"native", "baseline", "permissive"}
         /\ calls[p][Len(calls[p])][2] = passI[p]

\* a pass ended with the text the permissive reader found on variation 2,
\* before the end of the list
C12_Witness ==
  \E p \in FilePasses :
    /\ Finished(p)
    /\ finalResult[p] = passFile[p]
    /\ calls[p][Len(calls[p])] = <<"permissive", 2>>
    /\ passI[p] < NumVariants

\* the call pass p makes in this step, if it makes one
NewCall(p) == calls'[p][Len(calls'[p])]

\* the last call pass p has made
LastCall(p) == calls[p][Len(calls[p])]

\* C13: on each variation the fallback backend is attempted at most twice, in
\* a fixed order: the baseline call directly follows the variation's
\* transform; the permissive call, with tryHarder, alsoInverted and not
\* pureBarcode, directly follows the failed baseline call on the same
\* variation; a baseline call that returns text ends the pass with no
\* further call; after a permissive call the only next call is the transform
\* of the next variation; a finished pass makes no call.
C13_TwoFallbackAttemptsInOrder ==
  [][ \A p \in FilePasses :
        /\ calls'[p] # calls[p] =>
             /\ calls'[p] = Append(calls[p], NewCall(p))
             /\ ~Finished(p)
             /\ NewCall(p)[1] = "baseline" =>
                  /\ passPc[p] = "variant"
                  /\ LastCall(p) = <<"transform", NewCall(p)[2]>>
             /\ NewCall(p)[1] = "permissive" =>
                  /\ passPc[p] = "decode"
                  /\ LastCall(p) = <<"baseline", NewCall(p)[2]>>
                  /\ finalResult'[p] = Null /\ ~Finished(p)'
                  /\ HintProfile(NewCall(p)[1]) =
                       [tryHarder |-> TRUE, alsoInverted |-> TRUE,
                        pureBarcode |-> FALSE]
             /\ (calls[p] # <<>> /\ LastCall(p)[1] = "permissive") =>
                  NewCall(p) = <<"transform", LastCall(p)[2] + 1>>
        /\ (passPc[p] = "decode" /\ finalResult'[p] # Null) =>
             /\ calls'[p] = calls[p]
             /\ Finished(p)' ]_vars

\* both fallback attempts were made on variation 1 and on variation 2, and
\* the permissive attempt on variation 2 returned text
C13_Witness ==
  \E p \in FilePasses :
    /\ Len(calls[p]) >= 6
    /\ \E k \in CallIx(p) : k + 5 = Len(calls[p]) /\
         /\ calls[p][k] = <<"transform", 1>>
         /\ calls[p][k + 1] = <<"baseline", 1>>
         /\ calls[p][k + 2] = <<"permissive", 1>>
         /\ calls[p][k + 3] = <<"transform", 2>>
         /\ calls[p][k + 4] = <<"baseline", 2>>
         /\ calls[p][k + 5] = <<"permissive", 2>>
    /\ Finished(p)
    /\ finalResult[p] = passFile[p]

\* C15: a file pass in which no backend returned text ends with the no-result
\* outcome after all NumVariants variations were gone through, and the
\* attempt count it reports is NumVariants.
C15_ExhaustionReportsAllVariants ==
  \A p \in FilePasses :
    (Finished(p) /\ finalResult[p] = Null) =>
      /\ passI[p] = NumVariants
      /\ attemptCount[p] = NumVariants

(***************************************************************************)
(* Properties of the symbol selection (checked under SpecSelect).          *)
(***************************************************************************)
\* the first position of list that satisfies P, 0 if there is none
FirstWith(list, P(_)) ==
  LET hits == {k \in 1..Len(list) : P(list[k])}
  IN IF hits = {} THEN 0 ELSE CHOOSE k \in hits : \A j \in hits : k <= j

\* the first position of list whose text is of the greatest length
FirstLongest(list) ==
  CHOOSE k \in 1..Len(list) :
    /\ \A j \in 1..Len(list) : Len(list[j]) <= Len(list[k])
    /\ \A j \in 1..(k - 1) : Len(list[j]) < Len(list[k])

TrimmedTBA(str) == TestTBAPrefix(Trim(str))

\* C14 as stated: the selected symbol is the first whose text matches
\* ^TBA\d+ (case-insensitive) if there is one, otherwise the first of the
\* symbols with the longest text.
C14_SelectsFirstTBAElseLongest ==
  barcodes # <<>> =>
    best = IF FirstWith(barcodes, TestTBAPrefix) # 0
             THEN FirstWith(barcodes, TestTBAPrefix)
             ELSE FirstLongest(barcodes)

\* C14 amended: the selected symbol is the first whose text, with leading
\* and trailing white space removed, matches ^TBA\d+ (case-insensitive) if
\* there is one, otherwise the first of the symbols with the longest
\* (untrimmed) text; a TBA symbol is selected whatever the lengths.
C14_SelectsFirstTrimmedTBAElseLongest ==
  barcodes # <<>> =>
    /\ best = IF FirstWith(barcodes, TrimmedTBA) # 0
                THEN FirstWith(barcodes, TrimmedTBA)
                ELSE FirstLongest(barcodes)
    /\ (\E k \in 1..Len(barcodes) : TrimmedTBA(barcodes[k])) =>
         TrimmedTBA(barcodes[best])

\* a TBA symbol that is neither first nor longest was selected, and a list
\* without TBA symbol gave the first of two longest symbols
C14_Witness ==
  \/ /\ Len(barcodes) = 3
     /\ best = 2
     /\ TrimmedTBA(barcodes[2])
     /\ Len(barcodes[1]) > Len(barcodes[2])
  \/ /\ Len(barcodes) = 3
     /\ best = 2
     /\ ~TrimmedTBA(barcodes[2])
     /\ Len(barcodes[3]) = Len(barcodes[2])

(***************************************************************************)
(* Properties of the TrackingNumberExtractor (checked under SpecPick).     *)
(***************************************************************************)
\* the carriers in the priority order the specification gives
PriorityOrder == <<"UPS", "FedEx", "USPS", "DHL", "Amazon", "OnTrac">>

\* some carrier pattern matches the whole of str
HitsTable(str) == \E k \in 1..Len(PriorityOrder) : Matches(PriorityOrder[k], str)

\* the first carrier of the priority order whose pattern matches str
FirstInOrder(str) ==
  PriorityOrder[CHOOSE k \in 1..Len(PriorityOrder) :
                  /\ Matches(PriorityOrder[k], str)
                  /\ \A j \in 1..(k - 1) : ~Matches(PriorityOrder[j], str)]

\* the number of digits of str before position k
DigitsBefore(str, k) == Len(SelectSeq(SubSeq(str, 1, k - 1), IsDigit))

\* str is a run of digit groups 4-4-4-4-4-4-2 separated by one or more
\* characters of seps
IsGroupRun(str, seps) ==
  /\ str # <<>>
  /\ IsDigit(str[1]) /\ IsDigit(str[Len(str)])
  /\ \A k \in 1..Len(str) : IsDigit(str[k]) \/ str[k] \in seps
  /\ Len(SelectSeq(str, IsDigit)) = 26
  /\ \A k \in 1..Len(str) :
       str[k] \in seps => DigitsBefore(str, k) \in {4, 8, 12, 16, 20, 24}
  /\ \A b \in {4, 8, 12, 16, 20, 24} :
       \E k \in 1..Len(str) : str[k] \in seps /\ DigitsBefore(str, k) = b

\* the group runs that occur in str
GroupRuns(str, seps) ==
  {sub \in {SubSeq(str, a, b) : a \in 1..Len(str), b \in 1..Len(str)} :
     IsGroupRun(sub, seps)}

\* the runs of 20 to 22 digits that occur in str
LongRuns(str) ==
  {SubSeq(str, an[1], an[1] + an[2] - 1) :
     an \in {an \in (1..Len(str)) \X (20..22) : DigitsAt(str, an[1], an[2])}}

\* the four passes in their order, the third looking for groups separated by
\* characters of seps
FourPasses(seps) ==
  LET clean == RemoveSpaces(text)
  IN IF HitsTable(text)
       THEN picked = [carrier |-> FirstInOrder(text), number |-> text]
     ELSE IF HitsTable(clean)
       THEN picked = [carrier |-> FirstInOrder(clean), number |-> clean]
     ELSE IF GroupRuns(text, seps) # {}
       THEN picked.carrier = "USPS" /\ picked.number \in GroupRuns(text, seps)
     ELSE IF LongRuns(text) # {}
       THEN picked.carrier = "USPS" /\ picked.number \in LongRuns(text)
     ELSE picked = NoMatch

\* C18 as stated: pickTracking returns the result of the first pass that
\* hits, the passes being (1) the raw text against the carrier table in
\* priority order, (2) the text without white space against the table, (3) a
\* 4-4-4-4-4-4-2 digit-group run separated by one or more space characters,
\* as USPS, (4) a run of 20 to 22 digits, as USPS; null iff no pass hits.
C18_FourPassesSpaceSeparated == text # <<>> => FourPasses({" "})

\* C18 amended: as above, the groups of pass (3) being separated by one or
\* more white-space characters of any kind (tab and line break included).
C18_FourPassesWhiteSpaceSeparated == text # <<>> => FourPasses({" ", "\t"})

\* a text made of widely spaced groups only was settled by pass (2), which
\* returned the digits without the spaces although pass (3) would have hit
C18_Witness ==
  /\ GroupRuns(text, {" ", "\t"}) # {}
  /\ ~HitsTable(text)
  /\ picked = [carrier |-> "USPS", number |-> RemoveSpaces(text)]
  /\ picked.number # text

\* the TrackingMatch values built for the text
TrackingMatches == {m \in {picked, extracted, liveTracking} : m # NoMatch}

\* C19: the number of every TrackingMatch built by a pass of the extractor
\* or by a fallback of a caller fully matches the anchored pattern of the
\* carrier of the match.
C19_NumberMatchesCarrierAnchor ==
  \A m \in TrackingMatches : Matches(m.carrier, m.number)

\* the forms of the carrier numbers: 1Z and 16 alphanumerics, 12 or 15
\* digits, 20 to 22 digits, 10 digits, TBA and 12 digits, C and 14 digits
HasForm(carrier, str) ==
  CASE carrier = "UPS" ->
         /\ Len(str) = 18
         /\ str[1] = "1" /\ str[2] \in {"Z", "z"}
         /\ \A k \in 3..18 : IsAlnum(str[k])
    [] carrier = "FedEx" -> AllDigits(str) /\ Len(str) \in {12, 15}
    [] carrier = "USPS" -> AllDigits(str) /\ Len(str) \in 20..22
    [] carrier = "DHL" -> AllDigits(str) /\ Len(str) = 10
    [] carrier = "Amazon" ->
         /\ Len(str) = 15
         /\ <<Upper(str[1]), Upper(str[2]), Upper(str[3])>> = <<"T", "B", "A">>
         /\ AllDigits(SubSeq(str, 4, 15))
    [] carrier = "OnTrac" ->
         /\ Len(str) = 15
         /\ str[1] = "C"
         /\ AllDigits(SubSeq(str, 2, 15))
    [] OTHER -> FALSE

\* C20: for a text that has the form of a carrier's number, pickTracking and
\* extractTrackingNumber return that carrier and the text itself as the
\* number, character by character.
C20_FullMatchReturnedUnmodified ==
  \A k \in 1..Len(PriorityOrder) :
    HasForm(PriorityOrder[k], text) =>
      /\ picked = [carrier |-> PriorityOrder[k], number |-> text]
      /\ extracted = [carrier |-> PriorityOrder[k], number |-> text]

\* a UPS number written in lower case came back as it was given
C20_Witness ==
  /\ HasForm("UPS", text)
  /\ text[2] = "z"
  /\ picked = [carrier |-> "UPS", number |-> text]
  /\ extracted = picked

\* the white-space characters
WhiteSpace == {" ", "\t"}

\* the digits of str in their order
DigitsOf(str) == SelectSeq(str, IsDigit)

\* str is the number digits with one space put after every fourth digit
IsSpacedInFours(str, digits) ==
  /\ AllDigits(digits)
  /\ DigitsOf(str) = digits
  /\ Len(str) = Len(digits) + (Len(digits) - 1) \div 4
  /\ \A k \in 1..Len(str) : (str[k] = " ") <=> (k % 5 = 0)

\* the text is a 22-digit USPS number spaced in groups of four and a
\* trailing group of two
SpacedUSPS22 ==
  \E digits \in {DigitsOf(text)} :
    Len(digits) = 22 /\ IsSpacedInFours(text, digits)

\* C21 as stated: a 22-digit USPS number spaced in groups of four and a
\* trailing group of two is extracted as USPS with the digits of the
\* unspaced number, and it is pass 3 (the spaced-group heuristic, after
\* passes 1 and 2 have missed) that produces the match.
C21_SpacedUSPSViaPassThree ==
  SpacedUSPS22 =>
    /\ picked.carrier = "USPS"
    /\ DigitsOf(picked.number) = DigitsOf(text)
    /\ ~HitsTable(text) /\ ~HitsTable(DigitsOf(text))
    /\ picked.number \in GroupRuns(text, WhiteSpace)

\* C21 amended: a 22-digit USPS number spaced in groups of four and a
\* trailing group of two is extracted as USPS with exactly the digits of the
\* unspaced number, and it is pass 2 (the table applied to the text without
\* white space) that produces the match; pass 3 does not match the text.
C21_SpacedUSPSViaPassTwo ==
  SpacedUSPS22 =>
    /\ ~HitsTable(text)
    /\ picked = [carrier |-> "USPS", number |-> DigitsOf(text)]
    /\ GroupRuns(text, WhiteSpace) = {}

\* a spaced 22-digit number of differing digits was extracted without its
\* spaces
C21_Witness ==
  /\ SpacedUSPS22
  /\ text[1] = "9" /\ text[2] = "1"
  /\ picked.carrier = "USPS"
  /\ Len(picked.number) = 22

\* TBA and 12 digits, or AMZN and 8 or more letters and digits, in either case
AmazonForm(str) ==
  \/ /\ Len(str) = 15
     /\ <<Upper(str[1]), Upper(str[2]), Upper(str[3])>> = <<"T", "B", "A">>
     /\ AllDigits(SubSeq(str, 4, 15))
  \/ /\ Len(str) >= 12
     /\ <<Upper(str[1]), Upper(str[2]), Upper(str[3]), Upper(str[4])>>
          = <<"A", "M", "Z", "N">>
     /\ \A k \in 5..Len(str) : IsAlnum(str[k])

\* C22: a text is classified Amazon by the pattern of either extractor
\* exactly if it is TBA followed by 12 digits or AMZN followed by 8 or more
\* letters and digits (case-insensitive); any other character after AMZN
\* keeps the text from being classified Amazon.
C22_AmazonAcceptsExactlyAlphanumerics ==
  text # <<>> =>
    /\ (picked = [carrier |-> "Amazon", number |-> text]) <=> AmazonForm(text)
    /\ (extracted = [carrier |-> "Amazon", number |-> text]) <=> AmazonForm(text)

\* C23: extractTrackingNumber returns for every text the carrier and number,
\* or null, that the four-pass pickTracking returns.
C23_ExtractorsAgree == extracted = picked

(***************************************************************************)
(* Properties of the BandDetector and the crops (checked under SpecBand).  *)
(***************************************************************************)
\* the rows of the source with edge energy
BandRows == {y \in 0..(srcH - 1) : rowScores[y + 1] # 0}

\* the rows with edge energy form one band
OneBand ==
  /\ BandRows # {}
  /\ \A y1 \in BandRows, y2 \in BandRows :
       \A y \in y1..y2 : y \in BandRows

\* the rows of the region cropped
RegionRows == cropY..(cropY + cropH - 1)

RECURSIVE DirectSum(_, _)
DirectSum(a, b) == IF a > b THEN 0 ELSE rowScores[a + 1] + DirectSum(a + 1, b)

\* the sum of the window that starts at row start
WindowSum(start) == DirectSum(start, start + WindowH(srcH) - 1)

\* the starts of the full windows the loop has come by
StartsSeen == 0..(bandY - WindowH(srcH))

C26_RegionInsideSource ==
  bandPc \in {"band", "fixed"} =>
    /\ 0 <= cropY
    /\ cropY + cropH <= srcH

\* the band detector has cropped a source lower than the minimum window
C26_Witness ==
  /\ bandPc = "band"
  /\ srcH < MinWindow
  /\ cropY = 0
  /\ cropH = srcH

(***************************************************************************)
(* Properties of the pixel transforms (checked under SpecPixels).          *)
(***************************************************************************)
\* the pixels (x, y) of the window of half-width ws around (x, y), clamped
\* to the surface
Square(img, ws, x, y) ==
  {xy \in (0..(img.width - 1)) \X (0..(img.height - 1)) :
     /\ xy[1] >= x - ws /\ xy[1] <= x + ws
     /\ xy[2] >= y - ws /\ xy[2] <= y + ws}

\* the sum of the luminance over a set of pixels, one after the other
RECURSIVE BruteSum(_, _)
BruteSum(img, pixels) ==
  IF pixels = {} THEN 0
  ELSE LET xy == CHOOSE q \in pixels : TRUE
       IN Luminance(img.data, (xy[2] * img.width + xy[1]) * 4)
            + BruteSum(img, pixels \ {xy})

\* the output byte of the brute-force windowed mean for the pixel (x, y)
BruteValue(img, ws, c, x, y) ==
  IF Luminance(img.data, (y * img.width + x) * 4) * Cardinality(Square(img, ws, x, y))
       < BruteSum(img, Square(img, ws, x, y)) - 1000 * c * Cardinality(Square(img, ws, x, y))
    THEN 0 ELSE 255

C29_CallSitesSelectSameSymbol ==
  barcodes # <<>> =>
    /\ bestScanner = best
    /\ best = IF FirstWith(barcodes, TrimmedTBA) # 0
                THEN FirstWith(barcodes, TrimmedTBA)
                ELSE FirstLongest(barcodes)

(***************************************************************************)
(* Termination of the file decode pass (checked under SpecFileLive).       *)
(***************************************************************************)
\* the calls of the given kinds pass p has made on the surface i
CallsOn(p, kinds, i) ==
  {k \in CallIx(p) : calls[p][k][1] \in kinds /\ calls[p][k][2] = i}

\* a file pass has made at most one native call, at most two fallback calls
\* for each variation, and has realized the variations in rising order
BoundedCalls(p) ==
  /\ Cardinality({k \in CallIx(p) : calls[p][k][1] = "native"}) <= 1
  /\ \A i \in 1..NumVariants :
       Cardinality(CallsOn(p, {"baseline", "permissive"}, i)) <= 2
  /\ \A j \in CallIx(p), k \in CallIx(p) :
       (j < k /\ calls[p][j][1] = "transform" /\ calls[p][k][1] = "transform")
         => calls[p][j][2] < calls[p][k][2]
  /\ \A k \in CallIx(p) : calls[p][k][2] \in 0..NumVariants

\* the pass has reached its final outcome: the text rendered, or no result
FinalOutcome(p) == Finished(p) /\ passKind[p] = "file"

\* C30: every decodeFromFile pass, every call it awaits returning, makes at
\* most one native call and at most two fallback calls for each of the
\* NumVariants variations, never goes back to an earlier variation, and
\* reaches its final outcome.
C30_FilePassTerminates ==
  /\ [](\A p \in FilePasses : BoundedCalls(p))
  /\ \A p \in Passes :
       (passKind[p] = "file" /\ InProgress(p)) ~> FinalOutcome(p)

\* a file pass has gone through every variation with both fallback calls and
\* ended without result
C30_Witness ==
  \E p \in FilePasses :
    /\ Finished(p)
    /\ finalResult[p] = Null
    /\ Cardinality({k \in CallIx(p) : calls[p][k][1] = "permissive"}) = NumVariants

(***************************************************************************)
(* Frames without symbol (checked under SpecLive).                         *)
(***************************************************************************)
\* C31: a live frame in which the backend detects no symbol does not reach
\* the gate: prevCandidate, stableCount, lastTracking and cooldownUntil are
\* unchanged (and nothing is rendered), so a streak survives such frames.
C31_NoDecodeFrameLeavesGate ==
  [][ lastOp' = "detect" =>
        /\ UNCHANGED <<prevCandidate, stableCount, lastTracking, cooldownUntil>>
        /\ UNCHANGED resultEl ]_vars

\* a frame without symbol came while a streak of two was standing, and the
\* streak is still there
C31_Witness ==
  /\ lastOp = "detect"
  /\ stableCount = 2
  /\ prevCandidate = "A"

(***************************************************************************)
(* The streak after an emission, and the shape of StabilityState           *)
(* (checked under SpecGate).                                               *)
(***************************************************************************)
\* C32: an emission does not reset the streak: a call with the candidate that
\* was emitted last and that has been read on three or more consecutive
\* frames up to this call raises the streak by one and emits exactly if the
\* time is strictly greater than cooldownUntil; so the candidate is emitted
\* again on the first such frame and on no frame before it.
C32_ReEmitAfterCooldownWithoutNewStreak ==
  [][ ( /\ lastOp' = "maybeEmit"
        /\ arg' # Null
        /\ arg' = prevCandidate
        /\ arg' = lastTracking
        /\ stableCount >= STABLE_FRAMES ) =>
        /\ stableCount' = stableCount + 1
        /\ ret' <=> now > cooldownUntil
        /\ ret' => resultEl' = arg' /\ cooldownUntil' = now + COOLDOWN_MS ]_vars

\* the candidate emitted last was emitted again on a streak longer than
\* STABLE_FRAMES, that is without having been interrupted
C32_Witness ==
  /\ lastOp = "maybeEmit"
  /\ ret
  /\ stableCount > STABLE_FRAMES
  /\ prevCandidate = lastTracking
  /\ emitAt[prevCandidate] = now
  /\ now > COOLDOWN_MS

\* C33: the streak is never negative, it is 0 exactly when there is no
\* previous candidate, and a call that emits emits the previous candidate
\* on a streak of STABLE_FRAMES or more.
C33_StreakShape ==
  /\ stableCount >= 0
  /\ stableCount = 0 <=> prevCandidate = Null
  /\ (lastOp = "maybeEmit" /\ ret) =>
       /\ resultEl = prevCandidate
       /\ lastTracking = prevCandidate
       /\ prevCandidate # Null
       /\ stableCount >= STABLE_FRAMES

\* a streak was cleared by a frame without tracking match
C33_Witness ==
  /\ lastOp = "maybeEmit"
  /\ arg = Null
  /\ Len(recent) >= 2
  /\ recent[Len(recent) - 1] # Null
  /\ stableCount = 0
  /\ prevCandidate = Null

(***************************************************************************)
(* Exclusiveness of the carrier patterns (checked under SpecPick).         *)
(***************************************************************************)
\* the carriers whose pattern matches the whole of str
MatchingCarriers(str) ==
  {Carriers[k] : k \in {k \in 1..Len(Carriers) : Matches(Carriers[k], str)}}

\* the match of the table tried in the reverse order
RECURSIVE MatchBackFrom(_, _)
MatchBackFrom(str, k) ==
  IF k = 0 THEN NoMatch
  ELSE IF Matches(Carriers[k], str) THEN [carrier |-> Carriers[k], number |-> str]
  ELSE MatchBackFrom(str, k - 1)

\* C34: no string fully matches the patterns of two carriers, neither the
\* text nor the text without white space, so the match of a pass is the same
\* in whatever order the carriers are tried.
C34_CarrierPatternsExclusive ==
  \A str \in {text, RemoveSpaces(text)} :
    /\ Cardinality(MatchingCarriers(str)) <= 1
    /\ MatchBackFrom(str, Len(Carriers)) = MatchTable(str)

\* a text of 12 digits was classified, and no carrier but FedEx matches it
C34_Witness ==
  /\ Len(text) = 12
  /\ AllDigits(text)
  /\ picked.carrier = "FedEx"
  /\ MatchingCarriers(text) = {"FedEx"}

(***************************************************************************)
(* Properties of the StateMachine (checked under SpecStateMachine).        *)
(***************************************************************************)
\* C35: setState(s) sets the state to s and calls every registered listener
\* once, in registration order, with s and the previous state, also when s
\* is the previous state and when an earlier listener throws; no exception
\* leaves setState.
C35_SetStateNotifiesEveryListener ==
  [][ smState' # smState \/ invoked' # invoked \/ escaped' # escaped =>
        /\ smState' \in AppStates
        /\ Len(invoked') = Len(listeners)
        /\ \A k \in 1..Len(listeners) : invoked'[k] = <<k, smState', smState>>
        /\ ~escaped' ]_vars

\* a setState to the state that was current called a listener registered
\* after one that throws
C35_Witness ==
  /\ Len(listeners) = 3
  /\ listeners[1] = "throws"
  /\ Len(invoked) = 3
  /\ invoked[3] = <<3, "idle", "idle">>
  /\ smState = "idle"
  /\ ~escaped

====
